---- MODULE Spec2Model ----
(***************************************************************************)
(* Model of btrfs-diff: the diff tree (DiffNode), the stream processor     *)
(* (processCreate, processModify, processRenameOrLink, processDelete) and  *)
(* the output projector (GetDiffStruct).                                   *)
(*                                                                         *)
(* The Go heap is a sequence of node records; a *DiffNode is an index into *)
(* it and NIL is the nil pointer.  A path string is the sequence of its    *)
(* "/"-separated entries, a chain path likewise (the root's empty name is  *)
(* the first entry of an absolute chain path, so "/d/x" is <<"", "d",      *)
(* "x">> and the chain path "x" of a detached node is <<"x">>).            *)
(*                                                                         *)
(* cmds and heaps are history variables: the commands processed so far and *)
(* the tree before each of them.  A handler that returns an error or       *)
(* panics ends the run (status "error" or "panic"); its tree is kept in    *)
(* heap for inspection but ProcessBTRFSStream returns none.                *)
(*                                                                         *)
(* input is the reader over the stream: the bytes of the header and the    *)
(* frames behind them, with the position in each.  A frame is a command as *)
(* readCommand hands it out: its type and the types of its attributes in   *)
(* the order sent, with their values.  The specifications on the handlers  *)
(* draw each command when it is decoded and leave input empty; SpecStream  *)
(* fixes the whole stream at the start, so that what follows an END or an  *)
(* error is there to be seen.  stdout holds the documents written to the   *)
(* standard output.                                                        *)
(*                                                                         *)
(* command and reader are the two layers below a frame, each checked on    *)
(* its own: command is the payload of a command under ReadParam, as bytes  *)
(* (SpecParam), and reader is the bufio.Reader under peekAndDiscard, with  *)
(* its buffer and its place in the file (SpecPeek).  calls is a history    *)
(* variable: the calls made on the one or the other, with what each        *)
(* returned.  The other specifications leave the three empty.              *)
(*                                                                         *)
(* Not modelled: the capacity of the Relations slices (two appends to one  *)
(* backing array), in SpecStream and SpecDispatch the bytes of a frame     *)
(* (sizes, checksum, attribute lengths), how long a slice returned by      *)
(* peekAndDiscard stays valid, and of the renderings of the projection     *)
(* the JSON encoding and what a logged line holds behind its state name    *)
(* and chain path.                                                         *)
(***************************************************************************)
EXTENDS Integers, Sequences, FiniteSets, TLC

VARIABLES heap, status, cmds, heaps, rangeOrder, input, stdout,
          command, reader, calls

vars == <<heap, status, cmds, heaps, rangeOrder, input, stdout,
          command, reader, calls>>

----------------------------------------------------------------------------
(* Bounds *)

\* number of commands decoded from one stream
MaxCmds == 3

\* width of the unsigned integers of the write offsets and lengths (uint64 in
\* the program), scaled down so that sums wrap within the values drawn
Uint64Bits == 2

----------------------------------------------------------------------------
(* Names, paths, commands *)

NIL == 0

rootId == 1

\* Names that regexNewNode (o\d+-\d+-\d+, unanchored) matches.
PlaceholderNames == {"o1-2-3", "o4-5-6"}

\* Names it does not match.
PlainNames == {"d", "x"}

Names == PlainNames \cup PlaceholderNames

\* the orders a range over a Children map visits its keys in: Go leaves the
\* order open, a run of the model takes one of these two
NameSeq == <<"d", "o1-2-3", "o4-5-6", "x">>

NameSeqReversed == <<"x", "o4-5-6", "o1-2-3", "d">>

KeyOrders == {NameSeq, NameSeqReversed}

\* PATH attributes after attrConverterPath and strings.Split(path, "/")
Paths == {<<n>> : n \in Names} \cup {<<n, m>> : n \in Names, m \in Names}

CreateCmds == {"MKFILE", "MKDIR", "MKNOD", "MKFIFO", "MKSOCK", "SYMLINK"}

ModifyCmds == {"WRITE", "UPDATE_EXTENT", "TRUNCATE", "CHMOD", "CHOWN",
               "SET_XATTR", "REMOVE_XATTR"}

DeleteCmds == {"UNLINK", "RMDIR"}

RenameCmds == {"RENAME", "LINK"}

regexNewNode(name) == name \in PlaceholderNames

\* regexNewNode.MatchString on a whole path: the pattern holds no "/", so it
\* matches the path exactly when it matches one of its entries.
regexNewNodePath(path) == \E i \in 1..Len(path) : regexNewNode(path[i])

getLastPathPart(path) == path[Len(path)]

EmptyMap == [k \in {} |-> NIL]

\* PATH_LINK attributes of SYMLINK (attrConverterPathLink keeps them as sent)
LinkTargets == {"x", "/d/x"}

\* strings.Split(pathLink, "/")
SplitLink(s) ==
    CASE s = "x"    -> <<"x">>
      [] s = "/d/x" -> <<"", "d", "x">>

----------------------------------------------------------------------------
(* The diff tree: DiffNode and its methods *)

\* A DiffNode as the Go composite literals build it: fields not given are zero.
\* HasMap tells a Children map made with make() from the nil map.
NewNode(nodeType, path, state, relations, children, hasMap) ==
    [NodeType |-> nodeType, Path |-> path, State |-> state,
     Relations |-> relations, Changes |-> <<>>, Parent |-> NIL,
     Children |-> children, HasMap |-> hasMap, DeletedInSnapshot |-> FALSE,
     lastDataWrittenOffset |-> 0, lastDataWrittenLen |-> 0]

Ok(h) == [h |-> h, e |-> "ok"]

Err(h) == [h |-> h, e |-> "error"]

\* a Go run-time panic (nil map write, nil dereference, stack exhaustion)
Panic(h) == [h |-> h, e |-> "panic"]

\* n.Children[name], NIL when the key is absent (or the map is nil)
Lookup(h, n, name) ==
    IF name \in DOMAIN h[n].Children THEN h[n].Children[name] ELSE NIL

\* the keys of a Children map in the order this run visits them
KeysOf(children) == SelectSeq(rangeOrder, LAMBDA k : k \in DOMAIN children)

RECURSIVE GetChainPathFuel(_, _, _)
GetChainPathFuel(h, n, fuel) ==
    IF h[n].Parent # NIL /\ fuel > 0
    THEN Append(GetChainPathFuel(h, h[n].Parent, fuel - 1), h[n].Path)
    ELSE <<h[n].Path>>

GetChainPath(h, n) == GetChainPathFuel(h, n, Len(h))

RECURSIVE rootFuel(_, _, _)
rootFuel(h, n, fuel) ==
    IF h[n].Parent # NIL /\ fuel > 0
    THEN rootFuel(h, h[n].Parent, fuel - 1)
    ELSE n

root(h, n) == rootFuel(h, n, Len(h))

\* fault injection: the pattern tried on the parent's name, not the node's
isBTRFSTemporaryNode_ParentPath(h, n) ==
    /\ h[n].Parent # NIL
    /\ h[n].Parent = root(h, n)
    /\ regexNewNode(h[h[n].Parent].Path)

isBTRFSTemporaryNode(h, n) ==
    /\ h[n].Parent # NIL
    /\ h[n].Parent = root(h, n)
    /\ regexNewNode(h[n].Path)

\* the first relation with the reason, NIL when there is none
findRelation(h, n, reason) ==
    LET idx == {i \in 1..Len(h[n].Relations) : h[n].Relations[i].Reason = reason}
    IN  IF idx = {} THEN NIL
        ELSE h[n].Relations[CHOOSE i \in idx : \A j \in idx : i <= j].Node

\* NIL when the recursion does not end (a cycle of RENAME_SRC relations)
RECURSIVE followRenameChainSrcFuel(_, _, _)
followRenameChainSrcFuel(h, n, fuel) ==
    LET rel == findRelation(h, n, "RENAME_SRC")
    IN  IF rel = NIL THEN n
        ELSE IF fuel = 0 THEN NIL
        ELSE followRenameChainSrcFuel(h, rel, fuel - 1)

followRenameChainSrc(h, n) == followRenameChainSrcFuel(h, n, Len(h))

deleteNode(h, n, node) ==
    LET ks == {k \in DOMAIN h[n].Children : h[n].Children[k] = node}
    IN  IF ks = {} THEN Err(h)
        ELSE LET key == CHOOSE k \in ks : TRUE
                 rest == [k \in (DOMAIN h[n].Children) \ {key} |-> h[n].Children[k]]
                 h1 == [h EXCEPT ![n].Children = rest]
             IN  Ok([h1 EXCEPT ![node].Parent = NIL])

removeFromParent(h, n) ==
    IF h[n].Parent # NIL THEN deleteNode(h, h[n].Parent, n) ELSE Ok(h)

\* n.Children[name] = node: a write to a nil map panics
setChild(h, n, name, node) ==
    IF ~h[n].HasMap THEN Panic(h)
    ELSE Ok([h EXCEPT ![n].Children =
                [k \in (DOMAIN @) \cup {name} |-> IF k = name THEN node ELSE @[k]]])

RECURSIVE addNode(_, _, _)
RECURSIVE mergeChildren(_, _, _, _, _)

\* addNode once the new node is in place of existingNode's relations and
\* children: node.DeletedInSnapshot = true; n.Children[node.Path] = node
addNodeMerged(r, n, node) ==
    IF r.e # "ok" THEN r
    ELSE setChild([r.h EXCEPT ![node].DeletedInSnapshot = TRUE],
                  n, r.h[node].Path, node)

\* addNode once existingNode is removed from its parent: its relations are
\* appended to the node's and its children are added to the node
addNodeReplace(r, n, node, existingNode) ==
    IF r.e # "ok" THEN r
    ELSE addNodeMerged(
             mergeChildren([r.h EXCEPT ![node].Relations =
                                @ \o r.h[existingNode].Relations],
                           existingNode, node,
                           KeysOf(r.h[existingNode].Children), 1),
             n, node)

\* addNode once the node is deleted from its previous parent: node.Parent = n,
\* then the replacement of existingNode or the plain insertion
addNodeDetached(r, n, node, existingNode) ==
    IF r.e # "ok" THEN r
    ELSE IF existingNode # NIL
         THEN addNodeReplace(
                  removeFromParent([r.h EXCEPT ![node].Parent = n], existingNode),
                  n, node, existingNode)
         ELSE setChild([r.h EXCEPT ![node].Parent = n], n, r.h[node].Path, node)

\* the loop of addNode over existingNode.Children: node.addNode(val) for each
\* entry still in the map when the loop reaches it
mergeChildrenNext(r, existingNode, node, keys, i) ==
    IF r.e # "ok" THEN r
    ELSE mergeChildren(r.h, existingNode, node, keys, i + 1)

mergeChildren(h, existingNode, node, keys, i) ==
    IF i > Len(keys) THEN Ok(h)
    ELSE IF keys[i] \notin DOMAIN h[existingNode].Children
         THEN mergeChildren(h, existingNode, node, keys, i + 1)
         ELSE mergeChildrenNext(addNode(h, node, h[existingNode].Children[keys[i]]),
                                existingNode, node, keys, i)

\* fault injection: node.Parent = n comes before the test of the existing child
addNodeChecked_ParentFirst(h, n, node, existingNode) ==
    IF existingNode # NIL /\ h[existingNode].State # "opDelete"
    THEN Err([h EXCEPT ![node].Parent = n])
    ELSE addNodeDetached(IF h[node].Parent # NIL
                         THEN deleteNode(h, h[node].Parent, node) ELSE Ok(h),
                         n, node, existingNode)

\* addNode after the promotion of n: the test of the existing child, and the
\* node deleted from its previous parent
addNodeChecked(h, n, node, existingNode) ==
    IF existingNode # NIL /\ h[existingNode].State # "opDelete" THEN Err(h)
    ELSE addNodeDetached(IF h[node].Parent # NIL
                         THEN deleteNode(h, h[node].Parent, node) ELSE Ok(h),
                         n, node, existingNode)

addNode(h0, n, node) ==
    addNodeChecked([h0 EXCEPT ![n].NodeType = IF @ = "UNKNOWN" THEN "DIR" ELSE @],
                   n, node, Lookup(h0, n, h0[node].Path))

RECURSIVE mkdirpFrom(_, _, _, _, _, _)
mkdirpFrom(h, currentNode, entries, idx, oldCreated, newCreated) ==
    IF idx > Len(entries) THEN [h |-> h, e |-> "ok", node |-> currentNode]
    ELSE
    LET entry == entries[idx]
        existing == Lookup(h, currentNode, entry)
    IN  IF existing # NIL
        THEN mkdirpFrom(h, existing, entries, idx + 1, oldCreated, newCreated)
        ELSE
        LET createdInSnapshot == IF idx = Len(entries) THEN newCreated ELSE oldCreated
            state == IF createdInSnapshot THEN "opCreate" ELSE "opUnspec"
            newNode == [NewNode("DIR", entry, state, <<>>, EmptyMap, TRUE)
                            EXCEPT !.Parent = currentNode]
            id == Len(h) + 1
            r == setChild(Append(h, newNode), currentNode, entry, id)
        IN  IF r.e # "ok" THEN [h |-> r.h, e |-> r.e, node |-> NIL]
            ELSE mkdirpFrom(r.h, id, entries, idx + 1, oldCreated, newCreated)

mkdirp(h, n, path, oldCreated, newCreated) ==
    mkdirpFrom(h, n, path, 1, oldCreated, newCreated)

RECURSIVE getNodeFrom(_, _, _, _)
getNodeFrom(h, currentNode, entries, idx) ==
    IF idx > Len(entries) THEN currentNode
    ELSE LET next == Lookup(h, currentNode, entries[idx])
         IN  IF next = NIL THEN NIL ELSE getNodeFrom(h, next, entries, idx + 1)

\* strings.Split drops nothing but a first empty entry
getNodeByPath(h, path) ==
    getNodeFrom(h, rootId, IF path # <<>> /\ path[1] = "" THEN Tail(path) ELSE path, 1)

getNodeParentOrMkdir(h, path) ==
    IF Len(path) = 1 THEN [h |-> h, e |-> "ok", node |-> rootId]
    ELSE mkdirp(h, rootId, SubSeq(path, 1, Len(path) - 1), FALSE, FALSE)

----------------------------------------------------------------------------
(* The stream processor: one operator per handler *)

\* a change descriptor: the formatted string "kind:...=a...=b" kept as its parts
Change(kind, a, b) == [kind |-> kind, a |-> a, b |-> b]

\* fault injection: no change is taken for a write
HasPrefixWrite_Never(change) == FALSE

\* strings.HasPrefix(lastChange, "write")
HasPrefixWrite(change) == change.kind = "write"

CreateNodeType(cmd) ==
    CASE cmd = "MKFILE"  -> "FILE"
      [] cmd = "MKDIR"   -> "DIR"
      [] cmd = "SYMLINK" -> "SYMLINK"
      [] cmd = "MKNOD"   -> "NODE"
      [] cmd = "MKFIFO"  -> "FIFO"
      [] cmd = "MKSOCK"  -> "SOCK"

\* a result with the node it is about
withNode(r, node) == [h |-> r.h, e |-> r.e, node |-> node]

\* parent := getNodeParentOrMkdir(path); parent.addNode(node) for a node just
\* made: the tree and the node, or the failure
attachNew(pr, node) ==
    IF pr.e # "ok" THEN [h |-> pr.h, e |-> pr.e, node |-> NIL]
    ELSE withNode(addNode(Append(pr.h, node), pr.node, Len(pr.h) + 1),
                  Len(pr.h) + 1)

\* processDelete when the parent is a placeholder: the node is recorded under
\* the source of the parent's renames
deleteAnchored(h, node, cmd, renameSrc) ==
    IF renameSrc = NIL THEN Panic(h)
    ELSE LET nodeInSrc == Lookup(h, renameSrc, h[node].Path)
         IN  IF nodeInSrc # NIL
             THEN removeFromParent(
                      [h EXCEPT ![nodeInSrc].DeletedInSnapshot = TRUE,
                                ![nodeInSrc].NodeType =
                                    IF cmd = "RMDIR" THEN "DIR" ELSE @],
                      node)
             ELSE addNode(h, renameSrc, node)

\* processDelete once the node is marked
deleteMarked(h, node, cmd) ==
    IF h[node].Parent = NIL THEN Panic(h)       \* node.Parent.Path on a nil Parent
    ELSE IF ~regexNewNode(h[h[node].Parent].Path) THEN Ok(h)
    ELSE deleteAnchored(h, node, cmd, followRenameChainSrc(h, h[node].Parent))

\* processDelete once the node is found or synthesized
deleteLocated(r, cmd) ==
    IF r.e # "ok" THEN [h |-> r.h, e |-> r.e]
    ELSE deleteMarked(
             [r.h EXCEPT ![r.node].NodeType =
                             IF @ = "UNKNOWN" /\ cmd = "RMDIR" THEN "DIR" ELSE @,
                         ![r.node].State = "opDelete",
                         ![r.node].DeletedInSnapshot = TRUE],
             r.node, cmd)

processDelete(h0, path, cmd) ==
    deleteLocated(
        IF getNodeByPath(h0, path) # NIL
        THEN [h |-> h0, e |-> "ok", node |-> getNodeByPath(h0, path)]
        ELSE attachNew(getNodeParentOrMkdir(h0, path),
                       NewNode("UNKNOWN", getLastPathPart(path), "opUnspec",
                               <<>>, EmptyMap, TRUE)),
        cmd)

\* fault injection: the node synthesized for a link target that is not found
\* is put into the root's Children map
createLinked_TargetAttached(r, cmd, pathLink) ==
    IF r.e # "ok" THEN [h |-> r.h, e |-> r.e]
    ELSE IF cmd # "SYMLINK" THEN Ok(r.h)
    ELSE LET found == getNodeByPath(r.h, SplitLink(pathLink))
         IN  IF found # NIL
             THEN Ok([r.h EXCEPT ![r.node].Relations =
                         Append(@, [Node |-> found, Reason |-> "LINK_DEST"])])
             ELSE setChild([Append(r.h, NewNode("UNKNOWN", pathLink, "opUnspec",
                                                <<>>, EmptyMap, TRUE))
                               EXCEPT ![r.node].Relations =
                                   Append(@, [Node |-> Len(r.h) + 1,
                                              Reason |-> "LINK_DEST"])],
                           rootId, pathLink, Len(r.h) + 1)

\* the LINK_DEST relation of a new symlink: to the node at pathLink, or to an
\* orphan node made for it
createLinked(r, cmd, pathLink) ==
    IF r.e # "ok" THEN [h |-> r.h, e |-> r.e]
    ELSE IF cmd # "SYMLINK" THEN Ok(r.h)
    ELSE LET found == getNodeByPath(r.h, SplitLink(pathLink))
         IN  IF found # NIL
             THEN Ok([r.h EXCEPT ![r.node].Relations =
                         Append(@, [Node |-> found, Reason |-> "LINK_DEST"])])
             ELSE Ok([Append(r.h, NewNode("UNKNOWN", pathLink, "opUnspec",
                                          <<>>, EmptyMap, TRUE))
                         EXCEPT ![r.node].Relations =
                             Append(@, [Node |-> Len(r.h) + 1,
                                        Reason |-> "LINK_DEST"])])

\* fault injection: MKDIR marks the directories it synthesizes on the way as
\* created
processCreate_ParentsCreated(h0, path, cmd, pathLink) ==
    IF getNodeByPath(h0, path) # NIL THEN Err(h0)
    ELSE createLinked(
             IF CreateNodeType(cmd) = "DIR"
             THEN mkdirp(h0, rootId, path, TRUE, TRUE)
             ELSE attachNew(getNodeParentOrMkdir(h0, path),
                            NewNode(CreateNodeType(cmd), getLastPathPart(path),
                                    "opCreate", <<>>, EmptyMap, FALSE)),
             cmd, pathLink)

\* fault injection: a create over a tombstone is let through
processCreate_OverDeleted(h0, path, cmd, pathLink) ==
    IF /\ getNodeByPath(h0, path) # NIL
       /\ h0[getNodeByPath(h0, path)].State # "opDelete" THEN Err(h0)
    ELSE createLinked(
             IF CreateNodeType(cmd) = "DIR"
             THEN mkdirp(h0, rootId, path, FALSE, TRUE)
             ELSE attachNew(getNodeParentOrMkdir(h0, path),
                            NewNode(CreateNodeType(cmd), getLastPathPart(path),
                                    "opCreate", <<>>, EmptyMap, FALSE)),
             cmd, pathLink)

processCreate(h0, path, cmd, pathLink) ==
    IF getNodeByPath(h0, path) # NIL THEN Err(h0)
    ELSE createLinked(
             IF CreateNodeType(cmd) = "DIR"
             THEN mkdirp(h0, rootId, path, FALSE, TRUE)
             ELSE attachNew(getNodeParentOrMkdir(h0, path),
                            NewNode(CreateNodeType(cmd), getLastPathPart(path),
                                    "opCreate", <<>>, EmptyMap, FALSE)),
             cmd, pathLink)

\* unsigned addition: the sum wraps at the width of the type
AddUint64(a, b) == (a + b) % (2 ^ Uint64Bits)

\* WRITE and UPDATE_EXTENT: coalesce with the last change or append
writeChange(nd, offset, len) ==
    LET n == Len(nd.Changes)
        concat == /\ n > 0
                  /\ HasPrefixWrite(nd.Changes[n])
                  /\ AddUint64(nd.lastDataWrittenOffset, nd.lastDataWrittenLen)
                         = offset
        off2 == IF concat THEN nd.lastDataWrittenOffset ELSE offset
        len2 == IF concat THEN AddUint64(len, nd.lastDataWrittenLen) ELSE len
        kept == IF concat THEN SubSeq(nd.Changes, 1, n - 1) ELSE nd.Changes
    IN  [nd EXCEPT !.NodeType = IF @ = "UNKNOWN" THEN "FILE" ELSE @,
                   !.Changes = Append(kept, Change("write", off2, len2)),
                   !.lastDataWrittenOffset = off2,
                   !.lastDataWrittenLen = len2]

\* fault injection: every modified node becomes Modified
stateAfterModify_Unconditional(state) == "opModify"

\* if node.State != opCreate { node.State = opModify }
stateAfterModify(state) == IF state # "opCreate" THEN "opModify" ELSE state

\* the switch of processModify on the command: the change recorded on the node
applyChange(nd, cmd, a, b) ==
    CASE cmd \in {"WRITE", "UPDATE_EXTENT"} -> writeChange(nd, a, b)
      [] cmd = "TRUNCATE" ->
           [nd EXCEPT !.NodeType = IF @ = "UNKNOWN" THEN "FILE" ELSE @,
                      !.Changes = Append(@, Change("truncate", a, 0))]
      [] cmd = "UTIMES" ->
           [nd EXCEPT !.Changes = Append(@, Change("utime", a, b))]
      [] cmd = "CHMOD" ->
           [nd EXCEPT !.Changes = Append(@, Change("chmod", a, 0))]
      [] cmd = "CHOWN" ->
           [nd EXCEPT !.Changes = Append(@, Change("chown", a, b))]
      [] cmd = "SET_XATTR" ->
           [nd EXCEPT !.Changes = Append(@, Change("set_xattr", a, b))]
      [] cmd = "REMOVE_XATTR" ->
           [nd EXCEPT !.Changes = Append(@, Change("remove_xattr", a, 0))]

\* processModify once the node is found or synthesized
modifyLocated(r, cmd, a, b) ==
    IF r.e # "ok" THEN [h |-> r.h, e |-> r.e]
    ELSE Ok([r.h EXCEPT ![r.node] =
                applyChange([@ EXCEPT !.State = stateAfterModify(@)], cmd, a, b)])

processModify(h0, path, cmd, a, b) ==
    modifyLocated(
        IF getNodeByPath(h0, path) # NIL
        THEN [h |-> h0, e |-> "ok", node |-> getNodeByPath(h0, path)]
        ELSE attachNew(getNodeParentOrMkdir(h0, path),
                       NewNode("UNKNOWN", getLastPathPart(path), "opUnspec",
                               <<>>, EmptyMap, TRUE)),
        cmd, a, b)

\* fault injection: a LINK deletes its source as a RENAME does
deletesSource_AnyCommand(cmd) == cmd \in RenameCmds

\* only a RENAME marks the source node as deleted; a LINK preserves it
deletesSource(cmd) == cmd = "RENAME"

\* processRenameOrLink once nodeTo is added: the RENAME_DEST relation of the
\* source (the error message of a failed addNode calls nodeSrc.GetChainPath())
renameDone(r, nodeTo, nodeSrc, cmd) ==
    IF r.e # "ok" THEN (IF nodeSrc = NIL THEN Panic(r.h) ELSE r)
    ELSE IF nodeSrc # NIL /\ cmd = "RENAME"
         THEN Ok([r.h EXCEPT ![nodeSrc].Relations =
                     Append(@, [Node |-> nodeTo, Reason |-> "RENAME_DEST"])])
         ELSE r

\* parent := getNodeParentOrMkdir(to); parent.addNode(nodeTo)
renameAttach(pr, nodeTo, nodeSrc, cmd) ==
    IF pr.e # "ok" THEN [h |-> pr.h, e |-> pr.e]
    ELSE renameDone(addNode(Append(pr.h, nodeTo), pr.node, Len(pr.h) + 1),
                    Len(pr.h) + 1, nodeSrc, cmd)

\* nodeTo: the kind, the relations and a copy of the Children map of the source
\* as they were before the source was deleted, and the relation to the source
destNode(h, nodeSrc, from, to, cmd) ==
    IF nodeSrc = NIL
    THEN NewNode("UNKNOWN", getLastPathPart(to), "opCreate", <<>>, EmptyMap, TRUE)
    ELSE NewNode(h[nodeSrc].NodeType, getLastPathPart(to), "opCreate",
                 IF ~regexNewNodePath(from)
                 THEN Append(h[nodeSrc].Relations,
                             [Node |-> nodeSrc,
                              Reason |-> IF cmd = "RENAME" THEN "RENAME_SRC"
                                         ELSE "LINK_DEST"])
                 ELSE h[nodeSrc].Relations,
                 h[nodeSrc].Children, TRUE)

\* processRenameOrLink once the source is deleted (RENAME) or left (LINK)
renameTo(r, nodeTo, nodeSrc, to, cmd) ==
    IF r.e # "ok" THEN r
    ELSE renameAttach(getNodeParentOrMkdir(r.h, to), nodeTo, nodeSrc, cmd)

\* processRenameOrLink once the source is found, synthesized or nil
renameFrom(r, from, to, cmd) ==
    IF r.e # "ok" THEN [h |-> r.h, e |-> r.e]
    ELSE renameTo(IF r.node # NIL /\ deletesSource(cmd)
                  THEN processDelete(r.h, from, cmd) ELSE Ok(r.h),
                  destNode(r.h, r.node, from, to, cmd), r.node, to, cmd)

processRenameOrLink(h0, from, to, cmd) ==
    renameFrom(
        IF getNodeByPath(h0, from) # NIL \/ regexNewNodePath(from)
        THEN [h |-> h0, e |-> "ok", node |-> getNodeByPath(h0, from)]
        ELSE IF cmd # "RENAME"
        THEN [h |-> Append(h0, NewNode("UNKNOWN", getLastPathPart(from),
                                       "opUnspec", <<>>, EmptyMap, TRUE)),
              e |-> "ok", node |-> Len(h0) + 1]
        \* the fake source of a RENAME is attached under the parent of `to`
        ELSE attachNew(getNodeParentOrMkdir(h0, to),
                       NewNode("UNKNOWN", getLastPathPart(from), "opUnspec",
                               <<>>, EmptyMap, TRUE)),
        from, to, cmd)

----------------------------------------------------------------------------
(* The output projector *)

\* the nodes traverse hands to its callback, in order (a node once per visit)
RECURSIVE traverseFuel(_, _, _)
RECURSIVE traverseKeys(_, _, _, _, _)
traverseKeys(h, n, keys, i, fuel) ==
    IF i > Len(keys) THEN <<>>
    ELSE LET val == h[n].Children[keys[i]]
         IN  <<val>> \o traverseFuel(h, val, fuel - 1)
                     \o traverseKeys(h, n, keys, i + 1, fuel)

traverseFuel(h, n, fuel) ==
    IF fuel = 0 THEN <<>>
    ELSE traverseKeys(h, n, KeysOf(h[n].Children), 1, fuel)

traverse(h, n) == traverseFuel(h, n, Len(h))

\* fault injection: a node is ignored with every node above it that is
RECURSIVE Matches_WithAncestors(_, _, _)
Matches_WithAncestors(h, ignorePaths, f) ==
    \/ \E re \in ignorePaths : GetChainPath(h, f) \in re
    \/ (h[f].Parent # NIL /\ Len(GetChainPath(h, f)) > Len(GetChainPath(h, h[f].Parent))
           /\ Matches_WithAncestors(h, ignorePaths, h[f].Parent))

\* DiffIgnorePaths.Matches: a regex is the set of chain paths it matches
Matches(h, ignorePaths, f) ==
    \E re \in ignorePaths : GetChainPath(h, f) \in re

\* the --ignore lists the projection is checked with: none, and ^/x$
IgnoreLists == {{}, {{<<"", "x">>}}}

\* fault injection: no test for temporary nodes
shouldPrintNode_NoTemporaryFilter(h, n) ==
    h[n].State \in {"opCreate", "opModify", "opDelete"}

shouldPrintNode(h, n) ==
    IF isBTRFSTemporaryNode(h, n) THEN FALSE
    ELSE h[n].State \in {"opCreate", "opModify", "opDelete"}

\* fault injection: no node is emitted a second time
shadowEmit_Never(h, f) == FALSE

\* if f.DeletedInSnapshot && f.State != opDelete: f goes to Deleted as well
shadowEmit(h, f) == h[f].DeletedInSnapshot /\ h[f].State # "opDelete"

\* fault injection: the branch for opDelete left out, so that Deleted nodes
\* fall into the last branch
GetDiffStruct_NoDeleteBranch(h, ignorePaths) ==
    LET visited == traverse(h, rootId)
        Kept(f) == ~Matches(h, ignorePaths, f) /\ shouldPrintNode(h, f)
    IN  [Added   |-> SelectSeq(visited, LAMBDA f : Kept(f) /\ h[f].State = "opCreate"),
         Changed |-> SelectSeq(visited, LAMBDA f : Kept(f) /\ h[f].State # "opCreate"),
         Deleted |-> SelectSeq(visited, LAMBDA f : Kept(f) /\ shadowEmit(h, f))]

GetDiffStruct(h, ignorePaths) ==
    LET visited == traverse(h, rootId)
        Kept(f) == ~Matches(h, ignorePaths, f) /\ shouldPrintNode(h, f)
    IN  [Added   |-> SelectSeq(visited, LAMBDA f : Kept(f) /\ h[f].State = "opCreate"),
         Changed |-> SelectSeq(visited, LAMBDA f :
                        Kept(f) /\ h[f].State \notin {"opCreate", "opDelete"}),
         Deleted |-> SelectSeq(visited, LAMBDA f :
                        Kept(f) /\ (h[f].State = "opDelete" \/ shadowEmit(h, f)))]

\* operation.String(): the name of a state between the brackets of a line
names(state) ==
    CASE state = "opUnspec" -> "noop"
      [] state = "opIgnore" -> "ignored"
      [] state = "opCreate" -> "added"
      [] state = "opModify" -> "changed"
      [] state = "opDelete" -> "deleted"
      [] state = "opRename" -> "renamed"
      [] state = "opEnd"    -> "END"

\* a line of the log: the chain path and the name between the brackets
\* (f.String() gives names[f.State], f.StringForDeleted() gives names[opDelete])
Line(h, f, state) == [path |-> GetChainPath(h, f), verdict |-> names(state)]

\* the callback of print on one node: nothing for a node the ignore list
\* matches; else the line of a node to print, then the line of a node deleted
\* in the snapshot whose state is another
printNode(h, ignorePaths, f) ==
    IF Matches(h, ignorePaths, f) THEN <<>>
    ELSE (IF shouldPrintNode(h, f) THEN <<Line(h, f, h[f].State)>> ELSE <<>>)
         \o (IF h[f].DeletedInSnapshot /\ h[f].State # "opDelete"
             THEN <<Line(h, f, "opDelete")>> ELSE <<>>)

RECURSIVE printFrom(_, _, _, _)
printFrom(h, ignorePaths, visited, i) ==
    IF i > Len(visited) THEN <<>>
    ELSE printNode(h, ignorePaths, visited[i])
         \o printFrom(h, ignorePaths, visited, i + 1)

\* Diff.print: the lines logged behind "=== Tree ==="
print(h, ignorePaths) == printFrom(h, ignorePaths, traverse(h, rootId), 1)

----------------------------------------------------------------------------
(* ProcessBTRFSStream: the command loop *)

\* a decoded command: PATH, then PATH_TO (RENAME) or the PATH of a LINK, the
\* PATH_LINK of a SYMLINK, and two numeric attributes
Cmd(cmd, path, path2, link, a, b) ==
    [cmd |-> cmd, path |-> path, path2 |-> path2, link |-> link, a |-> a, b |-> b]

NoPath == <<>>

\* the reader of a run whose commands are drawn as they are decoded
NoStream == [header |-> <<>>, frames |-> <<>>, pos |-> 0, off |-> 0]

----------------------------------------------------------------------------
(* The attribute decoder on the bytes of a command's payload *)

\* the attribute ids: the enumeration of btrfs_send.h, version 1
BTRFS_SEND_A_INO == 3

BTRFS_SEND_A_PATH == 15

BTRFS_SEND_A_MAX_V1_PLUS_ONE == 25

\* binary.LittleEndian.Uint16 and Uint64 on the first bytes of b
RECURSIVE LittleEndian(_)
LittleEndian(b) == IF b = <<>> THEN 0 ELSE b[1] + 256 * LittleEndian(Tail(b))

\* strings.TrimLeft(path, "/")
RECURSIVE TrimLeftSlash(_)
TrimLeftSlash(b) ==
    IF b # <<>> /\ b[1] = 47 THEN TrimLeftSlash(Tail(b)) ELSE b

\* hex.EncodeToString: two digits for a byte
RECURSIVE EncodeToString(_)
EncodeToString(b) ==
    IF b = <<>> THEN <<>>
    ELSE <<b[1] \div 16, b[1] % 16>> \o EncodeToString(Tail(b))

\* attrDefs[t].converter: none for BTRFS_SEND_A_UNSPEC, which is 0
converterOf(t) ==
    CASE t = 0 -> "nil"
      [] t \in {1, 20} -> "attrConverterUUID"
      [] t \in {2, 3, 4, 5, 6, 7, 8, 18, 21, 23, 24} -> "attrConverterUint64"
      [] t \in {9, 10, 11, 12} -> "attrConverterTime"
      [] t = 13 -> "attrConverterString"
      [] t \in {14, 19} -> "attrConverterBytes"
      [] t \in {15, 16, 22} -> "attrConverterPath"
      [] t = 17 -> "attrConverterPathLink"

\* attr.converter(data): the value, or the panic of a nil function and of a
\* slice shorter than the integer read from it
converter(conv, b) ==
    CASE conv = "nil" -> [e |-> "panic", v |-> <<>>]
      [] conv = "attrConverterUint64" ->
           IF Len(b) < 8 THEN [e |-> "panic", v |-> <<>>]
           ELSE [e |-> "ok", v |-> LittleEndian(SubSeq(b, 1, 8))]
      [] conv = "attrConverterTime" ->
           IF Len(b) < 12 THEN [e |-> "panic", v |-> <<>>]
           ELSE [e |-> "ok", v |-> <<LittleEndian(SubSeq(b, 1, 8)),
                                     LittleEndian(SubSeq(b, 9, 12))>>]
      [] conv = "attrConverterUUID" -> [e |-> "ok", v |-> EncodeToString(b)]
      [] conv = "attrConverterPath" -> [e |-> "ok", v |-> TrimLeftSlash(b)]
      [] conv \in {"attrConverterString", "attrConverterPathLink",
                   "attrConverterBytes"} -> [e |-> "ok", v |-> b]

\* the end of ReadParam, with the type and the length accepted: the slice
\* data[4 : 4+paramLength], whose bound is a uint16 sum, the converter, and
\* the payload cut behind the value
ReadValue(data, paramType, paramLength) ==
    IF (4 + paramLength) % 65536 < 4
    THEN [e |-> "panic", v |-> <<>>, data |-> data]
    ELSE IF converter(converterOf(paramType),
                      SubSeq(data, 5, (4 + paramLength) % 65536)).e = "panic"
    THEN [e |-> "panic", v |-> <<>>, data |-> data]
    ELSE [e    |-> "ok",
          v    |-> converter(converterOf(paramType),
                             SubSeq(data, 5, (4 + paramLength) % 65536)).v,
          data |-> SubSeq(data, ((4 + paramLength) % 65536) + 1, Len(data))]

\* commandInst.ReadParam on the payload data: the error message of a type that
\* is not the expected one indexes attrDefs with the type found
commandInst_ReadParam(data, expectedType) ==
    IF Len(data) < 4 THEN [e |-> "error", v |-> <<>>, data |-> data]
    ELSE IF LittleEndian(SubSeq(data, 1, 2)) # expectedType
    THEN IF LittleEndian(SubSeq(data, 1, 2)) >= BTRFS_SEND_A_MAX_V1_PLUS_ONE
         THEN [e |-> "panic", v |-> <<>>, data |-> data]
         ELSE [e |-> "error", v |-> <<>>, data |-> data]
    ELSE IF LittleEndian(SubSeq(data, 3, 4)) + 4 > Len(data)
    THEN [e |-> "error", v |-> <<>>, data |-> data]
    ELSE ReadValue(data, LittleEndian(SubSeq(data, 1, 2)),
                   LittleEndian(SubSeq(data, 3, 4)))

\* no command is being decoded
NoCommand == [data |-> <<>>]

\* no byte reader is in use
NoReader == [size |-> 0, buf |-> <<>>, pos |-> 0, err |-> "nil", chunk |-> 0]

\* the calls of ReadParam on one command
MaxCalls == 3

\* an attribute on the wire: u16 type, u16 length, the value
Attribute(t, l, value) ==
    <<t % 256, t \div 256, l % 256, l \div 256>> \o value

\* the bytes the values are cut from: a slash, then a small integer
ValueBytes == <<47, 2, 0, 0, 0, 0, 0, 0>>

\* the types found in the payloads: two that are read, with a high byte too,
\* and the first past the table
ParamTypes == {BTRFS_SEND_A_INO, BTRFS_SEND_A_PATH, 256 + BTRFS_SEND_A_INO,
               BTRFS_SEND_A_MAX_V1_PLUS_ONE}

\* the first k bytes of a payload
Cut(data, k) == SubSeq(data, 1, IF k < Len(data) THEN k ELSE Len(data))

\* the payloads: two attributes, whole or cut in a header or in a value
Payloads ==
    {Cut(Attribute(t1, l1, SubSeq(ValueBytes, 1, l1))
             \o Attribute(t2, l2, SubSeq(ValueBytes, 1, l2)), k) :
        t1 \in ParamTypes, l1 \in {0, 1, 8},
        t2 \in {BTRFS_SEND_A_INO, BTRFS_SEND_A_PATH}, l2 \in {1, 8},
        k \in {0, 3, 4, 5, 7, 8, 11, 12, 13, 15, 16, 17, 24}}

InitParam ==
    /\ heap = <<>>
    /\ status = "decoding"
    /\ cmds = <<>>
    /\ heaps = <<>>
    /\ rangeOrder = NameSeq
    /\ input = NoStream
    /\ stdout = <<>>
    /\ command \in {[data |-> p] : p \in Payloads}
    /\ reader = NoReader
    /\ calls = <<>>

\* one call of ReadParam by a handler
ReadParamCall(expectedTypes) ==
    \E expectedType \in expectedTypes :
        /\ status = "decoding"
        /\ Len(calls) < MaxCalls
        /\ command' = [data |-> commandInst_ReadParam(command.data, expectedType).data]
        /\ calls' = Append(calls,
               [expected |-> expectedType,
                data     |-> command.data,
                e        |-> commandInst_ReadParam(command.data, expectedType).e,
                v        |-> commandInst_ReadParam(command.data, expectedType).v])
        /\ status' = IF commandInst_ReadParam(command.data, expectedType).e = "panic"
                     THEN "panic" ELSE status
        /\ UNCHANGED <<heap, cmds, heaps, rangeOrder, input, stdout, reader>>

NextParam == ReadParamCall({BTRFS_SEND_A_INO, BTRFS_SEND_A_PATH})

SpecParam == InitParam /\ [][NextParam]_vars

----------------------------------------------------------------------------
(* The byte reader: peekAndDiscard on a bufio.Reader over a file *)

\* the bytes of the file read
FileLen == 40

File == [i \in 1..FileLen |-> i]

\* len(b.buf) of the reader of ProcessBTRFSStream, scaled down to the least
\* size a bufio.Reader has
BufSize == 16

\* the least size of a bufio.Reader
minReadBufferSize == 16

Min(a, b) == IF a < b THEN a ELSE b

\* a Read of the file into a slice of length k > 0: at most chunk bytes at a
\* time, io.EOF at the end
fileRead(b, k) ==
    IF b.pos = FileLen THEN [n |-> 0, err |-> "EOF"]
    ELSE [n |-> Min(k, Min(b.chunk, FileLen - b.pos)), err |-> "nil"]

\* bufio.Reader.fill: the buffered bytes slid to the front, one Read behind them
fill(b) ==
    IF fileRead(b, b.size - Len(b.buf)).err # "nil"
    THEN [b EXCEPT !.err = fileRead(b, b.size - Len(b.buf)).err]
    ELSE [b EXCEPT
             !.buf = @ \o SubSeq(File, b.pos + 1,
                                 b.pos + fileRead(b, b.size - Len(b.buf)).n),
             !.pos = @ + fileRead(b, b.size - Len(b.buf)).n]

\* the loop of bufio.Reader.Peek
RECURSIVE fillUpTo(_, _)
fillUpTo(b, n) ==
    IF Len(b.buf) < n /\ Len(b.buf) < b.size /\ b.err = "nil"
    THEN fillUpTo(fill(b), n)
    ELSE b

\* bufio.Reader.Peek after its loop: the bytes, with an error when they are
\* fewer than n; readErr takes the error out of the reader
peeked(b, n) ==
    IF n > b.size THEN [b |-> b, data |-> b.buf, err |-> "ErrBufferFull"]
    ELSE IF Len(b.buf) < n
    THEN [b    |-> [b EXCEPT !.err = "nil"],
          data |-> b.buf,
          err  |-> IF b.err = "nil" THEN "ErrBufferFull" ELSE b.err]
    ELSE [b |-> b, data |-> SubSeq(b.buf, 1, n), err |-> "nil"]

Peek(b, n) == peeked(fillUpTo(b, n), n)

\* bufio.Reader.Discard of n bytes that are buffered
Discard(b, n) == [b EXCEPT !.buf = SubSeq(@, n + 1, Len(@))]

\* bufio.Reader.Read into a slice of length k > 0: what is buffered, or else one
\* Read of the file, into the slice itself when it is no shorter than the
\* buffer
readBuffered(b, k) ==
    [b    |-> Discard(b, Min(k, Len(b.buf))),
     data |-> SubSeq(b.buf, 1, Min(k, Len(b.buf))),
     err  |-> "nil"]

Read(b, k) ==
    IF b.buf # <<>> THEN readBuffered(b, k)
    ELSE IF b.err # "nil"
    THEN [b |-> [b EXCEPT !.err = "nil"], data |-> <<>>, err |-> b.err]
    ELSE IF fileRead(b, Min(k, b.size)).err # "nil"
    THEN [b |-> b, data |-> <<>>, err |-> fileRead(b, Min(k, b.size)).err]
    ELSE IF k >= b.size
    THEN [b    |-> [b EXCEPT !.pos = @ + fileRead(b, k).n],
          data |-> SubSeq(File, b.pos + 1, b.pos + fileRead(b, k).n),
          err  |-> "nil"]
    ELSE readBuffered(fill(b), k)

\* fault injection: the reader made around the input has twice the size asked
wrapperSize_Doubled(size) == 2 * size

\* len(buf) of the reader bufio.NewReaderSize makes
wrapperSize(size) == IF size < minReadBufferSize THEN minReadBufferSize ELSE size

\* Peek(n) on a reader of the given size made around the input: its buffer
\* buf is filled by Reads of the input until it holds n bytes or a Read fails
RECURSIVE wrappedPeek(_, _, _, _)
wrappedPeek(in, size, buf, n) ==
    IF Len(buf) < n /\ Len(buf) < size
    THEN IF Read(in, size - Len(buf)).err # "nil"
         THEN [b |-> Read(in, size - Len(buf)).b, data |-> buf,
               err |-> Read(in, size - Len(buf)).err]
         ELSE wrappedPeek(Read(in, size - Len(buf)).b, size,
                          buf \o Read(in, size - Len(buf)).data, n)
    ELSE IF Len(buf) < n THEN [b |-> in, data |-> buf, err |-> "ErrBufferFull"]
    ELSE [b |-> in, data |-> SubSeq(buf, 1, n), err |-> "nil"]

\* Peek and Discard, and the wrapped error when Peek fails
peekThenDiscard(r, n) ==
    IF r.err # "nil" THEN [b |-> r.b, data |-> <<>>, e |-> "error"]
    ELSE [b |-> r.b, data |-> r.data, e |-> "ok"]

\* peekAndDiscard: on the input itself when n bytes are buffered or
\* bufio.NewReaderSize returns the input, which is no smaller than n, and else
\* on a new reader around the input, which is dropped at the return
peekAndDiscard(in, n) ==
    IF n > Len(in.buf) /\ in.size < n
    THEN peekThenDiscard(wrappedPeek(in, wrapperSize(n), <<>>, n), n)
    ELSE IF Peek(in, n).err # "nil"
    THEN peekThenDiscard(Peek(in, n), n)
    ELSE peekThenDiscard([b    |-> Discard(Peek(in, n).b, n),
                          data |-> Peek(in, n).data,
                          err  |-> "nil"], n)

\* the sizes asked for: none, the fields of a frame, payloads below, at and
\* above the size of the buffer
PeekSizes == {0, 2, 4, 10, 16, 17, 20}

\* the most bytes one Read of the file returns
Chunks == {1, 7, FileLen}

InitPeek ==
    /\ heap = <<>>
    /\ status = "reading"
    /\ cmds = <<>>
    /\ heaps = <<>>
    /\ rangeOrder = NameSeq
    /\ input = NoStream
    /\ stdout = <<>>
    /\ command = NoCommand
    /\ reader \in {[size |-> BufSize, buf |-> <<>>, pos |-> 0, err |-> "nil",
                    chunk |-> c] : c \in Chunks}
    /\ calls = <<>>

\* one call of peekAndDiscard by the decoder
PeekAndDiscardCall ==
    \E n \in PeekSizes :
        /\ status = "reading"
        /\ Len(calls) < MaxCalls
        /\ reader' = peekAndDiscard(reader, n).b
        /\ calls' = Append(calls, [n    |-> n,
                                   at   |-> reader.pos - Len(reader.buf),
                                   e    |-> peekAndDiscard(reader, n).e,
                                   data |-> peekAndDiscard(reader, n).data])
        /\ UNCHANGED <<heap, status, cmds, heaps, rangeOrder, input, stdout,
                       command>>

NextPeek == PeekAndDiscardCall

SpecPeek == InitPeek /\ [][NextPeek]_vars

----------------------------------------------------------------------------
(* The run on commands drawn as they are decoded *)

Init ==
    /\ heap = <<NewNode("DIR", "", "opUnspec", <<>>, EmptyMap, TRUE)>>
    /\ status = "running"
    /\ cmds = <<>>
    /\ heaps = <<>>
    /\ rangeOrder \in KeyOrders
    /\ input = NoStream
    /\ stdout = <<>>
    /\ command = NoCommand
    /\ reader = NoReader
    /\ calls = <<>>

\* one turn of the loop on a command that reaches a handler: the tree the handler
\* leaves, and the run stopped when the handler failed
Step(c, r) ==
    /\ status = "running"
    /\ Len(cmds) < MaxCmds
    /\ heap' = r.h
    /\ status' = IF r.e = "ok" THEN "running" ELSE r.e
    /\ cmds' = Append(cmds, c)
    /\ heaps' = Append(heaps, heap)
    /\ UNCHANGED <<rangeOrder, input, stdout,
                 command, reader, calls>>

Create(paths, kinds, links) ==
    \E path \in paths, cmd \in kinds :
        \E pathLink \in (IF cmd = "SYMLINK" THEN links ELSE {""}) :
            Step(Cmd(cmd, path, NoPath, pathLink, 0, 0),
                 processCreate(heap, path, cmd, pathLink))

Modify(paths, kinds, as, bs) ==
    \E path \in paths, cmd \in kinds, a \in as, b \in bs :
        Step(Cmd(cmd, path, NoPath, "", a, b), processModify(heap, path, cmd, a, b))

RenameOrLink(froms, tos, kinds) ==
    \E from \in froms, to \in tos, cmd \in kinds :
        Step(Cmd(cmd, from, to, "", 0, 0), processRenameOrLink(heap, from, to, cmd))

Delete(paths, kinds) ==
    \E path \in paths, cmd \in kinds :
        Step(Cmd(cmd, path, NoPath, "", 0, 0), processDelete(heap, path, cmd))

End ==
    /\ status = "running"
    /\ status' = "done"
    /\ UNCHANGED <<heap, cmds, heaps, rangeOrder, input, stdout,
                 command, reader, calls>>

----------------------------------------------------------------------------
(* The stream: header, frames, and the dispatch of ProcessBTRFSStream *)

\* "btrfs-stream" in ASCII
BTRFS_SEND_STREAM_MAGIC ==
    <<98, 116, 114, 102, 115, 45, 115, 116, 114, 101, 97, 109>>

\* binary.LittleEndian.Uint32 of four bytes
LittleEndianUint32(b) == b[1] + 256 * b[2] + 65536 * b[3] + 16777216 * b[4]

\* errors.Wrap and errors.Wrapf: nil when the error they are given is nil
Wrapf(e) == IF e = "ok" THEN "ok" ELSE "error"

\* the bytes bufio.Reader.ReadString(0) returns: up to and including the first
\* NUL behind the position, <<>> with an error when there is none
ReadString(in) ==
    LET nuls == {i \in (in.pos + 1)..Len(in.header) : in.header[i] = 0}
    IN  IF nuls = {} THEN <<>>
        ELSE SubSeq(in.header, in.pos + 1, CHOOSE i \in nuls : \A j \in nuls : i <= j)

\* validateBTRFSStream once the header string is read: the two comparisons
\* return errors.Wrapf(err, ...) of the nil err of the read before them
validateVersion(in, btrfsStreamHeader) ==
    LET at == in.pos + Len(btrfsStreamHeader)
    IN  IF SubSeq(btrfsStreamHeader, 1, Len(btrfsStreamHeader) - 1)
               # BTRFS_SEND_STREAM_MAGIC
        THEN [e |-> Wrapf("ok"), input |-> [in EXCEPT !.pos = at]]
        ELSE IF Len(in.header) - at < 4
        THEN [e |-> Wrapf("error"), input |-> [in EXCEPT !.pos = at]]
        ELSE IF LittleEndianUint32(SubSeq(in.header, at + 1, at + 4)) # 1
        THEN [e |-> Wrapf("ok"), input |-> [in EXCEPT !.pos = at + 4]]
        ELSE [e |-> "ok", input |-> [in EXCEPT !.pos = at + 4]]

validateBTRFSStream(in) ==
    IF ReadString(in) = <<>>
    THEN [e |-> Wrapf("error"), input |-> [in EXCEPT !.pos = Len(in.header)]]
    ELSE validateVersion(in, ReadString(in))

\* the command types of a stream, and a type id above BTRFS_SEND_C_MAX
CommandNames ==
    {"UNSPEC", "SUBVOL", "SNAPSHOT", "LINK", "RENAME", "UNLINK", "RMDIR", "CLONE",
     "UTIMES", "END", "FALLOCATE", "FILEATTR", "ENCODED_WRITE", "ENABLE_VERITY"}
        \cup CreateCmds \cup ModifyCmds

commandsDefs ==
    [c \in CommandNames |->
        CASE c = "UNSPEC" -> "opUnspec"
          [] c \in {"SUBVOL", "SNAPSHOT"} \cup CreateCmds -> "opCreate"
          [] c \in {"LINK", "RENAME"} -> "opRename"
          [] c \in {"UNLINK", "RMDIR"} -> "opDelete"
          [] c \in {"CLONE"} \cup ModifyCmds -> "opModify"
          [] c \in {"UTIMES", "FALLOCATE", "FILEATTR", "ENCODED_WRITE",
                    "ENABLE_VERITY"} -> "opIgnore"
          [] c = "END" -> "opEnd"]

\* a frame: the command type, the types of its attributes in the order sent,
\* and their values (path: PATH, or PATH_LINK of a LINK; path2: PATH_TO, or
\* PATH of a LINK; link: PATH_LINK of a SYMLINK; a, b: the numeric attributes)
Frame(cmd, attrs, path, path2, link, a, b) ==
    [cmd |-> cmd, attrs |-> attrs, path |-> path, path2 |-> path2,
     link |-> link, a |-> a, b |-> b]

\* readCommand: less than the ten bytes of a frame head left (the streams drawn
\* hold no frame behind header bytes left unread), or a type id above
\* BTRFS_SEND_C_MAX, is an error
readCommand(in) ==
    IF in.pos < Len(in.header) \/ in.off >= Len(in.frames)
    THEN [e |-> "error", input |-> in, frame |-> <<>>]
    ELSE IF in.frames[in.off + 1].cmd \notin CommandNames
    THEN [e |-> "error", input |-> [in EXCEPT !.off = @ + 1], frame |-> <<>>]
    ELSE [e |-> "ok", input |-> [in EXCEPT !.off = @ + 1],
          frame |-> in.frames[in.off + 1]]

\* ReadParam succeeds on each of the types in turn, from the i-th attribute on
ReadParam(attrs, i, types) ==
    /\ Len(attrs) >= i + Len(types) - 1
    /\ \A k \in 1..Len(types) : attrs[i + k - 1] = types[k]

\* a handler that returns an error after it has changed the tree
failed(r) == [h |-> r.h, e |-> IF r.e = "panic" THEN "panic" ELSE "error"]

\* the attributes the switch of processModify reads, behind PATH
ModifyParams(cmd) ==
    CASE cmd = "WRITE"         -> <<"FILE_OFFSET", "DATA">>
      [] cmd = "UPDATE_EXTENT" -> <<"FILE_OFFSET", "SIZE">>
      [] cmd = "TRUNCATE"      -> <<"SIZE">>
      [] cmd = "UTIMES"        -> <<"ATIME", "MTIME", "CTIME">>
      [] cmd = "CHMOD"         -> <<"MODE">>
      [] cmd = "CHOWN"         -> <<"UID", "GID">>
      [] cmd = "SET_XATTR"     -> <<"XATTR_NAME", "XATTR_DATA">>
      [] cmd = "REMOVE_XATTR"  -> <<"XATTR_NAME">>

\* processModify up to the switch: the node found or synthesized, and its state
modifyStateOnly(r) ==
    IF r.e # "ok" THEN [h |-> r.h, e |-> r.e]
    ELSE Ok([r.h EXCEPT ![r.node].State = stateAfterModify(@)])

\* processModify on a frame: a ReadParam that fails in the switch returns the
\* error with the node already in place
frameModify(h, f) ==
    IF ReadParam(f.attrs, 2, ModifyParams(f.cmd))
    THEN processModify(h, f.path, f.cmd, f.a, f.b)
    ELSE failed(modifyStateOnly(
             IF getNodeByPath(h, f.path) # NIL
             THEN [h |-> h, e |-> "ok", node |-> getNodeByPath(h, f.path)]
             ELSE attachNew(getNodeParentOrMkdir(h, f.path),
                            NewNode("UNKNOWN", getLastPathPart(f.path), "opUnspec",
                                    <<>>, EmptyMap, TRUE))))

\* processCreate on a frame: the INO and PATH_LINK of a SYMLINK are read once
\* the node is added
frameCreate(h, f) ==
    IF f.cmd # "SYMLINK" \/ ReadParam(f.attrs, 2, <<"INO", "PATH_LINK">>)
    THEN processCreate(h, f.path, f.cmd, f.link)
    ELSE IF getNodeByPath(h, f.path) # NIL THEN Err(h)
    ELSE failed(attachNew(getNodeParentOrMkdir(h, f.path),
                          NewNode("SYMLINK", getLastPathPart(f.path), "opCreate",
                                  <<>>, EmptyMap, FALSE)))

\* case opRename: PATH, then PATH_TO of a RENAME or PATH_LINK of a LINK
frameRename(h, f) ==
    IF f.cmd = "RENAME" /\ ReadParam(f.attrs, 1, <<"PATH", "PATH_TO">>)
    THEN processRenameOrLink(h, f.path, f.path2, f.cmd)
    ELSE IF f.cmd = "LINK" /\ ReadParam(f.attrs, 1, <<"PATH", "PATH_LINK">>)
    THEN processRenameOrLink(h, f.path, f.path2, f.cmd)
    ELSE Err(h)

\* fault injection: CLONE is passed over like SUBVOL
frameDefault_CloneIgnored(h, f) ==
    CASE f.cmd = "SUBVOL" ->
           IF ReadParam(f.attrs, 1, <<"PATH", "UUID", "CTRANSID">>)
           THEN Ok(h) ELSE Err(h)
      [] f.cmd = "SNAPSHOT" ->
           IF ReadParam(f.attrs, 1, <<"PATH", "UUID", "CTRANSID", "CLONE_UUID",
                                      "CLONE_CTRANSID">>)
           THEN Ok(h) ELSE Err(h)
      [] f.cmd = "CLONE" -> Ok(h)
      [] OTHER ->
           IF ~ReadParam(f.attrs, 1, <<"PATH">>) THEN Err(h)
           ELSE IF f.cmd \in CreateCmds THEN frameCreate(h, f)
           ELSE IF f.cmd \in ModifyCmds \cup {"UTIMES"} THEN frameModify(h, f)
           ELSE Err(h)

\* the default case of the switch on the operation
frameDefault(h, f) ==
    CASE f.cmd = "SUBVOL" ->
           IF ReadParam(f.attrs, 1, <<"PATH", "UUID", "CTRANSID">>)
           THEN Ok(h) ELSE Err(h)
      [] f.cmd = "SNAPSHOT" ->
           IF ReadParam(f.attrs, 1, <<"PATH", "UUID", "CTRANSID", "CLONE_UUID",
                                      "CLONE_CTRANSID">>)
           THEN Ok(h) ELSE Err(h)
      [] f.cmd = "CLONE" -> Err(h)
      [] OTHER ->
           IF ~ReadParam(f.attrs, 1, <<"PATH">>) THEN Err(h)
           ELSE IF f.cmd \in CreateCmds THEN frameCreate(h, f)
           ELSE IF f.cmd \in ModifyCmds \cup {"UTIMES"} THEN frameModify(h, f)
           ELSE Err(h)

\* fault injection: no case opIgnore, the ignored commands reach the default
\* case
Dispatch_NoIgnoreCase(h, f) ==
    CASE commandsDefs[f.cmd] = "opUnspec" -> Err(h)
      [] commandsDefs[f.cmd] = "opEnd"    -> Ok(h)
      [] commandsDefs[f.cmd] = "opRename" -> frameRename(h, f)
      [] commandsDefs[f.cmd] = "opDelete" ->
           IF ReadParam(f.attrs, 1, <<"PATH">>)
           THEN processDelete(h, f.path, f.cmd) ELSE Err(h)
      [] OTHER -> frameDefault(h, f)

\* one turn of the loop on a decoded command: switch command.Type.Op
Dispatch(h, f) ==
    CASE commandsDefs[f.cmd] = "opUnspec" -> Err(h)
      [] commandsDefs[f.cmd] = "opIgnore" -> Ok(h)
      [] commandsDefs[f.cmd] = "opEnd"    -> Ok(h)
      [] commandsDefs[f.cmd] = "opRename" -> frameRename(h, f)
      [] commandsDefs[f.cmd] = "opDelete" ->
           IF ReadParam(f.attrs, 1, <<"PATH">>)
           THEN processDelete(h, f.path, f.cmd) ELSE Err(h)
      [] OTHER -> frameDefault(h, f)

\* fault injection: END is passed over like an ignored command
stopsLoop_Never(f) == FALSE

\* case opEnd: stop = true
stopsLoop(f) == commandsDefs[f.cmd] = "opEnd"

\* fault injection: the loop goes on after a handler returned an error
afterCommand_ContinueOnError(f, e) ==
    IF stopsLoop(f) THEN "done" ELSE "running"

\* where the loop stands after a command: an error returned, the loop left at
\* END, or the next turn
afterCommand(f, e) ==
    IF e # "ok" THEN e
    ELSE IF stopsLoop(f) THEN "done" ELSE "running"

\* the header bytes of the streams drawn: the magic and version 1; version 2;
\* version 1 in big-endian order; a version cut short; no NUL; a wrong magic;
\* an empty magic
StreamHeaders ==
    {BTRFS_SEND_STREAM_MAGIC \o <<0>> \o v : v \in {<<1, 0, 0, 0>>, <<2, 0, 0, 0>>,
                                                    <<0, 0, 0, 1>>}}

ShortHeaders ==
    {BTRFS_SEND_STREAM_MAGIC \o <<0, 1, 0>>,
     BTRFS_SEND_STREAM_MAGIC,
     <<98, 116, 114, 102, 115, 45, 115, 116, 114, 101, 97, 110, 0, 1, 0, 0, 0>>,
     <<0, 1, 0, 0, 0>>}

\* the frames of the streams drawn; "TYPE_99" stands for a type id above
\* BTRFS_SEND_C_MAX
StreamFrames ==
    {Frame("MKFILE", <<"PATH", "INO">>, <<"x">>, NoPath, "", 0, 0),
     Frame("SYMLINK", <<"PATH", "INO", "PATH_LINK">>, <<"d", "x">>, NoPath, "x", 0, 0),
     Frame("SYMLINK", <<"PATH", "INO">>, <<"d", "x">>, NoPath, "", 0, 0),
     Frame("CHMOD", <<"PATH", "MODE">>, <<"x">>, NoPath, "", 1, 0),
     Frame("CHMOD", <<"PATH">>, <<"d">>, NoPath, "", 0, 0),
     Frame("UTIMES", <<"PATH", "ATIME", "MTIME", "CTIME">>, <<"x">>, NoPath, "", 1, 1),
     Frame("UNLINK", <<"PATH">>, <<"x">>, NoPath, "", 0, 0),
     Frame("RENAME", <<"PATH", "PATH_TO">>, <<"x">>, <<"d", "x">>, "", 0, 0),
     Frame("SNAPSHOT", <<"PATH", "UUID", "CTRANSID", "CLONE_UUID", "CLONE_CTRANSID">>,
           <<"x">>, NoPath, "", 0, 0),
     Frame("CLONE", <<"PATH">>, <<"x">>, NoPath, "", 0, 0),
     Frame("TYPE_99", <<>>, NoPath, NoPath, "", 0, 0),
     Frame("END", <<>>, NoPath, NoPath, "", 0, 0)}

\* the streams drawn: a header followed by at most MaxCmds frames, or a stream
\* that ends within or right behind a header that does not validate
Streams ==
    {[header |-> hd, frames |-> fs, pos |-> 0, off |-> 0] :
        hd \in StreamHeaders,
        fs \in UNION {[1..n -> StreamFrames] : n \in 0..MaxCmds}}
    \cup {[header |-> hd, frames |-> <<>>, pos |-> 0, off |-> 0] :
            hd \in ShortHeaders}

\* ProcessBTRFSStream before the loop: no tree until the header validates
InitStream ==
    /\ heap = <<>>
    /\ status = "validating"
    /\ cmds = <<>>
    /\ heaps = <<>>
    /\ rangeOrder \in KeyOrders
    /\ input \in Streams
    /\ stdout = <<>>
    /\ command = NoCommand
    /\ reader = NoReader
    /\ calls = <<>>

Validate ==
    /\ status = "validating"
    /\ input' = validateBTRFSStream(input).input
    /\ IF validateBTRFSStream(input).e = "ok"
       THEN /\ status' = "running"
            /\ heap' = <<NewNode("DIR", "", "opUnspec", <<>>, EmptyMap, TRUE)>>
       ELSE /\ status' = "error"
            /\ heap' = heap
    /\ UNCHANGED <<cmds, heaps, rangeOrder, stdout,
                 command, reader, calls>>

\* a turn of the loop whose readCommand fails
ReadFails ==
    /\ status = "running"
    /\ readCommand(input).e # "ok"
    /\ input' = readCommand(input).input
    /\ status' = "error"
    /\ UNCHANGED <<heap, cmds, heaps, rangeOrder, stdout,
                 command, reader, calls>>

\* a turn of the loop on the command f with the result r of its case
CommandStep(f, r) ==
    /\ heap' = r.h
    /\ status' = afterCommand(f, r.e)
    /\ cmds' = Append(cmds, f)
    /\ heaps' = Append(heaps, heap)

Command ==
    /\ status = "running"
    /\ readCommand(input).e = "ok"
    /\ input' = readCommand(input).input
    /\ CommandStep(readCommand(input).frame, Dispatch(heap, readCommand(input).frame))
    /\ UNCHANGED <<rangeOrder, stdout,
                 command, reader, calls>>

\* ProcessFileAndOutput once ProcessFile returned the diff: the document on the
\* standard output with --json, the log of print (on the standard error) without
Output ==
    /\ status = "done"
    /\ \E json \in BOOLEAN, ignorePaths \in IgnoreLists :
          stdout' = IF json THEN Append(stdout, GetDiffStruct(heap, ignorePaths))
                    ELSE stdout
    /\ status' = "exited"
    /\ UNCHANGED <<heap, cmds, heaps, rangeOrder, input,
                 command, reader, calls>>

\* the frames of the streams of commands that make no node: the frame
\* commands SUBVOL and SNAPSHOT (one SNAPSHOT cut behind CTRANSID), the
\* commands of versions 2 and 3, CLONE and UNSPEC, between a create, a delete
\* and END
DispatchFrames ==
    {Frame("MKFILE", <<"PATH", "INO">>, <<"x">>, NoPath, "", 0, 0),
     Frame("UNLINK", <<"PATH">>, <<"x">>, NoPath, "", 0, 0),
     Frame("SUBVOL", <<"PATH", "UUID", "CTRANSID">>, <<"x">>, NoPath, "", 0, 0),
     Frame("SNAPSHOT", <<"PATH", "UUID", "CTRANSID", "CLONE_UUID", "CLONE_CTRANSID">>,
           <<"x">>, NoPath, "", 0, 0),
     Frame("SNAPSHOT", <<"PATH", "UUID", "CTRANSID">>, <<"x">>, NoPath, "", 0, 0),
     Frame("FALLOCATE", <<"PATH", "FALLOCATE_MODE", "FILE_OFFSET", "SIZE">>,
           <<"x">>, NoPath, "", 0, 1),
     Frame("FILEATTR", <<"PATH", "FILEATTR">>, <<"x">>, NoPath, "", 1, 0),
     Frame("ENCODED_WRITE", <<"PATH", "FILE_OFFSET", "DATA">>, <<"x">>, NoPath, "",
           0, 1),
     Frame("ENABLE_VERITY", <<"PATH", "VERITY_ALGORITHM">>, <<"x">>, NoPath, "", 1, 0),
     Frame("CLONE", <<"PATH", "FILE_OFFSET", "CLONE_LEN", "CLONE_UUID",
                      "CLONE_CTRANSID", "CLONE_PATH", "CLONE_OFFSET">>,
           <<"x">>, NoPath, "", 0, 1),
     Frame("UNSPEC", <<>>, NoPath, NoPath, "", 0, 0),
     Frame("END", <<>>, NoPath, NoPath, "", 0, 0)}

\* streams of version 1 and, as the validation lets them through, of version 2
DispatchStreams ==
    {[header |-> BTRFS_SEND_STREAM_MAGIC \o <<0>> \o v, frames |-> fs,
      pos |-> 0, off |-> 0] :
        v \in {<<1, 0, 0, 0>>, <<2, 0, 0, 0>>},
        fs \in UNION {[1..n -> DispatchFrames] : n \in 0..MaxCmds}}

InitDispatch ==
    /\ heap = <<>>
    /\ status = "validating"
    /\ cmds = <<>>
    /\ heaps = <<>>
    /\ rangeOrder \in KeyOrders
    /\ input \in DispatchStreams
    /\ stdout = <<>>
    /\ command = NoCommand
    /\ reader = NoReader
    /\ calls = <<>>

----------------------------------------------------------------------------
(* The streams checked: each specification draws its commands from the paths  *)
(* and kinds its properties are about                                         *)

T1 == "o1-2-3"

T2 == "o4-5-6"

\* renames, links and deletions over tombstones and directories with children
NextRename ==
    \/ Create({<<"d", "x">>, <<"x", "x">>}, {"MKFILE"}, {""})
    \/ Delete({<<"x">>, <<"d", "x">>, <<T1>>}, {"UNLINK"})
    \/ RenameOrLink({<<"d">>, <<"x">>}, {<<"x">>, <<"d", "x">>, <<T1>>, <<"d">>},
                    RenameCmds)
    \/ RenameOrLink({<<"x", "d">>}, {<<T1>>}, {"RENAME"})
    \/ End

Spec == Init /\ [][NextRename]_vars

\* the placeholder protocol of btrfs send: create at o<ino>-<gen>-<n>, rename
\* to the final path, rename a directory away before its entries are deleted
NextPlaceholder ==
    \/ Create({<<T1>>}, CreateCmds, LinkTargets)
    \/ Create({<<"d", "x">>}, {"MKFILE"}, {""})
    \/ RenameOrLink({<<T1>>, <<"d">>}, {<<"x">>, <<T1>>, <<"d", "x">>, <<T2>>},
                    {"RENAME"})
    \/ Delete({<<T1, "x">>, <<T1>>}, DeleteCmds)
    \/ End

SpecPlaceholder == Init /\ [][NextPlaceholder]_vars

\* modifications of nodes in every state
NextModify ==
    \/ Modify({<<"x">>, <<"d", "x">>}, ModifyCmds, {0}, {1})
    \/ Create({<<"x">>, <<"d", "x">>}, {"MKFILE"}, {""})
    \/ Delete({<<"x">>, <<"d", "x">>}, {"UNLINK"})
    \/ RenameOrLink({<<"d">>}, {<<"x">>}, {"RENAME"})
    \/ End

SpecModify == Init /\ [][NextModify]_vars

\* the offsets and lengths of the writes drawn: contiguous pairs, gaps, and
\* sums that wrap
WriteOffsets == {0, 1, 3}

WriteLens == {0, 1, 2}

\* writes to one file between its other modifications, its creation and its
\* deletion
NextWrite ==
    \/ Modify({<<"x">>}, {"WRITE", "UPDATE_EXTENT"}, WriteOffsets, WriteLens)
    \/ Modify({<<"x">>}, {"CHMOD", "TRUNCATE"}, {0}, {0})
    \/ Create({<<"x">>}, {"MKFILE"}, {""})
    \/ Delete({<<"x">>}, {"UNLINK"})
    \/ End

SpecWrite == Init /\ [][NextWrite]_vars

\* a directory, a file in it and a file beside it, in every state of the
\* projection
NextIgnore ==
    \/ Create({<<"x">>, <<"d", "x">>}, {"MKFILE"}, {""})
    \/ Modify({<<"d">>, <<"d", "x">>}, {"CHMOD"}, {0}, {0})
    \/ Delete({<<"d">>, <<"x">>}, {"RMDIR"})
    \/ RenameOrLink({<<"d">>}, {<<"x">>}, {"RENAME"})
    \/ End

SpecIgnore == Init /\ [][NextIgnore]_vars

\* deletions under plain directories, under a directory that was renamed, and
\* under directories named like placeholders at the root and below it
NextDelete ==
    \/ Create({<<"d", "x">>, <<"d", T1, "x">>}, {"MKFILE", "MKDIR"}, {""})
    \/ RenameOrLink({<<"d">>}, {<<"x">>}, {"RENAME"})
    \/ Delete({<<"d">>, <<"d", "x">>, <<"x", "x">>, <<"d", T1, "x">>, <<T1, "x">>},
              DeleteCmds)
    \/ End

SpecDelete == Init /\ [][NextDelete]_vars

\* creates of every kind over absent paths and over nodes in every state
NextCreate ==
    \/ Create({<<"x">>}, CreateCmds, LinkTargets)
    \/ Create({<<"d">>, <<"d", "x">>}, {"MKFILE", "MKDIR"}, {""})
    \/ Modify({<<"x">>, <<"d">>}, {"CHMOD"}, {0}, {0})
    \/ Delete({<<"x">>, <<"d">>}, DeleteCmds)
    \/ End

SpecCreate == Init /\ [][NextCreate]_vars

\* a directory with a file moved or linked to a new name, and entries moved
\* out of the new name, into a directory or onto a placeholder
NextMove ==
    \/ Create({<<"d", "x">>}, {"MKFILE", "MKDIR"}, {""})
    \/ RenameOrLink({<<"d">>}, {<<"x">>}, RenameCmds)
    \/ RenameOrLink({<<"x", "x">>, <<"x">>}, {<<T1>>, <<"d", "d">>}, {"RENAME"})
    \/ Delete({<<"d", "x">>}, {"UNLINK"})
    \/ End

SpecMove == Init /\ [][NextMove]_vars

\* a directory moved or linked below one of its own entries, and a directory
\* under a placeholder that is moved away, replaced by one of its own
\* entries and emptied
NextSubtree ==
    \/ Create({<<"d", "x">>, <<T1, "x", "d">>}, {"MKDIR"}, {""})
    \/ RenameOrLink({<<"d">>}, {<<"d", "x", "d">>}, RenameCmds)
    \/ RenameOrLink({<<T1>>}, {<<"d">>}, {"RENAME"})
    \/ RenameOrLink({<<"d", "x", "d">>}, {<<T1>>}, {"RENAME"})
    \/ Delete({<<T1, "x">>, <<"d", "x">>}, DeleteCmds)
    \/ End

SpecSubtree == Init /\ [][NextSubtree]_vars

\* symbolic links at the root and in a directory, to targets that are in the
\* tree, that are not, and to themselves, under parents of every kind
NextSymlink ==
    \/ Create({<<"x">>, <<"d", "x">>}, {"SYMLINK"}, LinkTargets)
    \/ Create({<<"x">>, <<"d", "x">>}, {"MKFILE"}, {""})
    \/ Modify({<<"d">>}, {"CHMOD"}, {0}, {0})
    \/ Delete({<<"d">>, <<"x">>}, {"UNLINK"})
    \/ End

SpecSymlink == Init /\ [][NextSymlink]_vars

\* a whole run on a stream fixed at the start
NextStream == Validate \/ ReadFails \/ Command \/ Output

SpecStream == InitStream /\ [][NextStream]_vars

\* a whole run on a stream of commands that make no node
SpecDispatch == InitDispatch /\ [][NextStream]_vars

----------------------------------------------------------------------------
(* Vocabulary of the properties *)

\* the run has not failed: the tree is the one a following END would return
Succeeded == status \in {"running", "done"}

LastCmd == cmds[Len(cmds)]

\* the command before the last
PrevCmd == cmds[Len(cmds) - 1]

\* the tree before the last command
Pre == heaps[Len(heaps)]

\* the tree before the last two commands
PrePre == heaps[Len(heaps) - 1]

\* the chain path "/" + path
Abs(path) == <<"">> \o path

\* how many entries of a bucket have the chain path
CountPath(h, bucket, chain) ==
    Cardinality({i \in 1..Len(bucket) : GetChainPath(h, bucket[i]) = chain})

InBucket(h, bucket, chain) == CountPath(h, bucket, chain) > 0

\* the chain paths of a bucket with their multiplicities
PathBag(h, bucket) ==
    LET chains == {GetChainPath(h, bucket[i]) : i \in 1..Len(bucket)}
    IN  [c \in chains |-> CountPath(h, bucket, c)]

\* a bag with one more occurrence of the chain path
BagPlus(bag, chain) ==
    [c \in (DOMAIN bag) \cup {chain} |->
        (IF c \in DOMAIN bag THEN bag[c] ELSE 0) + (IF c = chain THEN 1 ELSE 0)]

Range(seq) == {seq[i] : i \in 1..Len(seq)}

NoDup(seq) == \A i, j \in 1..Len(seq) : seq[i] = seq[j] => i = j

\* the projection with no --ignore option
Diff == GetDiffStruct(heap, {})

PreDiff == GetDiffStruct(Pre, {})

PrePreDiff == GetDiffStruct(PrePre, {})

AllEntries(d) == Range(d.Added) \cup Range(d.Changed) \cup Range(d.Deleted)

\* a chain path at or under /name
UnderRootName(chain, name) ==
    Len(chain) >= 2 /\ chain[1] = "" /\ chain[2] = name

\* a path that names a temporary placeholder directly under the root
IsTemporaryPath(path) == Len(path) = 1 /\ regexNewNode(path[1])

\* the nodes the root's Children map holds
RootChildren(h) == {h[rootId].Children[k] : k \in DOMAIN h[rootId].Children}

----------------------------------------------------------------------------
(* C1 *)

C1_Pre ==
    /\ cmds # <<>>
    /\ LastCmd.cmd = "RENAME"
    /\ ~regexNewNodePath(LastCmd.path)
    /\ ~regexNewNodePath(LastCmd.path2)
    /\ getNodeByPath(Pre, LastCmd.path) = NIL
    /\ LET t == getNodeByPath(Pre, LastCmd.path2)
       IN  t = NIL \/ Pre[t].State = "opDelete"

\* C1: a RENAME from->to with no placeholder component, whose `from` has no
\* node in the tree and whose `to` holds no non-Deleted node, succeeds, and the
\* projection then lists /to in added and /from in deleted.
C1_RenameReportsBoth ==
    C1_Pre => /\ Succeeded
              /\ InBucket(heap, Diff.Added, Abs(LastCmd.path2))
              /\ InBucket(heap, Diff.Deleted, Abs(LastCmd.path))

----------------------------------------------------------------------------
(* C2 *)

\* RENAME d -> t of a directory (or a path with no node yet) to a placeholder
\* under the root, then UNLINK or RMDIR of t/x, both successful
C2_Pre ==
    /\ Len(cmds) >= 2
    /\ Succeeded
    /\ LastCmd.cmd \in DeleteCmds
    /\ Len(LastCmd.path) = 2
    /\ regexNewNode(LastCmd.path[1])
    /\ PrevCmd.cmd = "RENAME"
    /\ PrevCmd.path2 = <<LastCmd.path[1]>>
    /\ Len(PrevCmd.path) = 1
    /\ ~regexNewNode(PrevCmd.path[1])
    /\ LET dn == getNodeByPath(PrePre, PrevCmd.path)
       IN  dn = NIL \/ PrePre[dn].NodeType \in {"DIR", "UNKNOWN"}

\* C2: after a non-placeholder directory d was renamed to a temporary
\* placeholder t under the root, UNLINK or RMDIR of t/x is reported against the
\* old path: deleted contains /d/x, t has no child named x, and no bucket
\* holds a path under /t.
C2_DeleteAgainstOldPath ==
    C2_Pre =>
        LET t == LastCmd.path[1]
            x == LastCmd.path[2]
            d == PrevCmd.path[1]
            tn == getNodeByPath(heap, <<t>>)
        IN  /\ InBucket(heap, Diff.Deleted, <<"", d, x>>)
            /\ (tn # NIL => x \notin DOMAIN heap[tn].Children)
            /\ \A f \in AllEntries(Diff) : ~UnderRootName(GetChainPath(heap, f), t)

----------------------------------------------------------------------------
(* C3 *)

\* the kind each create command makes
C3_Kind ==
    [MKFILE |-> "FILE", MKDIR |-> "DIR", MKNOD |-> "NODE", MKFIFO |-> "FIFO",
     MKSOCK |-> "SOCK", SYMLINK |-> "SYMLINK"]

\* a create at a placeholder t under the root, then RENAME t -> p, no node at p
C3_Pre ==
    /\ Len(cmds) >= 2
    /\ Succeeded
    /\ PrevCmd.cmd \in CreateCmds
    /\ IsTemporaryPath(PrevCmd.path)
    /\ LastCmd.cmd = "RENAME"
    /\ LastCmd.path = PrevCmd.path
    /\ getNodeByPath(Pre, LastCmd.path2) = NIL

C3_Concl ==
    LET p == Abs(LastCmd.path2)
    IN  /\ PathBag(heap, Diff.Added) = BagPlus(PathBag(PrePre, PrePreDiff.Added), p)
        /\ PathBag(heap, Diff.Changed) = PathBag(PrePre, PrePreDiff.Changed)
        /\ PathBag(heap, Diff.Deleted) = PathBag(PrePre, PrePreDiff.Deleted)
        /\ \A f \in Range(Diff.Added) :
              GetChainPath(heap, f) = p => heap[f].NodeType = C3_Kind[PrevCmd.cmd]
        /\ \A f \in AllEntries(Diff) : GetChainPath(heap, f) # Abs(PrevCmd.path)

----------------------------------------------------------------------------
(* C4 *)

\* a successful RENAME or LINK whose destination held a Deleted node
C4_Pre ==
    /\ cmds # <<>>
    /\ Succeeded
    /\ LastCmd.cmd \in RenameCmds
    /\ LET tomb == getNodeByPath(Pre, LastCmd.path2)
       IN  tomb # NIL /\ Pre[tomb].State = "opDelete"

C4_Concl ==
    LET new == getNodeByPath(heap, LastCmd.path2)
    IN  /\ new # NIL
        /\ new > Len(Pre)
        /\ CountPath(heap, Diff.Added, Abs(LastCmd.path2)) = 1
        /\ CountPath(heap, Diff.Deleted, Abs(LastCmd.path2)) = 1

----------------------------------------------------------------------------
(* C5 *)

C5_Pre == cmds # <<>> /\ Succeeded /\ LastCmd.cmd = "LINK"

\* the destination is a new node in state Created
C5_Dest ==
    LET dest == getNodeByPath(heap, LastCmd.path2)
    IN  dest # NIL /\ dest > Len(Pre) /\ heap[dest].State = "opCreate"

\* no node that existed before has another state or flag
C5_Frame ==
    \A i \in 1..Len(Pre) :
        /\ heap[i].State = Pre[i].State
        /\ heap[i].DeletedInSnapshot = Pre[i].DeletedInSnapshot

\* the synthesized source is not in the tree, and the projection gains /to in
\* added and nothing else
C5_Proj ==
    /\ \A i \in Range(traverse(heap, rootId)) :
          i > Len(Pre) =>
              heap[i].NodeType # "UNKNOWN" \/ i = getNodeByPath(heap, LastCmd.path2)
    /\ PathBag(heap, Diff.Added) =
          BagPlus(PathBag(Pre, PreDiff.Added), Abs(LastCmd.path2))
    /\ PathBag(heap, Diff.Changed) = PathBag(Pre, PreDiff.Changed)
    /\ PathBag(heap, Diff.Deleted) = PathBag(Pre, PreDiff.Deleted)

C5_FromAbsent == getNodeByPath(Pre, LastCmd.path) = NIL

C5_ToAbsent == getNodeByPath(Pre, LastCmd.path2) = NIL

----------------------------------------------------------------------------
(* C6 *)

C6_Pre == cmds # <<>> /\ Succeeded /\ LastCmd.cmd \in ModifyCmds

\* the state rule of a modify command
C6_State ==
    C6_Pre =>
        LET n == getNodeByPath(heap, LastCmd.path)
            p == getNodeByPath(Pre, LastCmd.path)
        IN  /\ n # NIL
            /\ heap[n].State = IF p # NIL /\ Pre[p].State = "opCreate"
                               THEN "opCreate" ELSE "opModify"

\* node i was in state Created at some point of the run
CreatedInStream(i) ==
    \/ heap[i].State = "opCreate"
    \/ \E k \in 1..Len(heaps) : i <= Len(heaps[k]) /\ heaps[k][i].State = "opCreate"

\* node i was in state Deleted at some point of the run
DeletedInStream(i) ==
    \/ heap[i].State = "opDelete"
    \/ \E k \in 1..Len(heaps) : i <= Len(heaps[k]) /\ heaps[k][i].State = "opDelete"

\* C6 as stated: after a modify command on p the node at p is Created if it
\* was Created before and Modified otherwise, and so no node created in this
\* stream is ever listed in changed.
C6_ModifyState_Original ==
    /\ C6_State
    /\ (Succeeded => \A i \in Range(Diff.Changed) : ~CreatedInStream(i))

\* C6, amended: the same state rule, and so no node created in this stream is
\* listed in changed unless it was deleted after it was created.
C6_ModifyState ==
    /\ C6_State
    /\ (Succeeded => \A i \in Range(Diff.Changed) :
                        CreatedInStream(i) => DeletedInStream(i))

C6_Witness ==
    /\ C6_Pre
    /\ LastCmd.cmd = "TRUNCATE"
    /\ LET p == getNodeByPath(Pre, LastCmd.path)
       IN  p # NIL /\ Pre[p].State = "opCreate"
    /\ InBucket(heap, Diff.Added, Abs(LastCmd.path))

----------------------------------------------------------------------------
(* C7 *)

\* C7: after a successfully processed command sequence no node directly under
\* the root whose name matches o\d+-\d+-\d+ is in added, changed or deleted,
\* whatever the --ignore list.
C7_TemporaryOpacity ==
    Succeeded =>
        \A ign \in IgnoreLists :
            \A f \in AllEntries(GetDiffStruct(heap, ign)) :
                ~(f \in RootChildren(heap) /\ regexNewNode(heap[f].Path))

\* a placeholder under the root in a state that is otherwise projected
C7_Witness ==
    /\ Succeeded
    /\ \E f \in RootChildren(heap) :
          regexNewNode(heap[f].Path) /\ heap[f].State = "opDelete"
    /\ \E f \in RootChildren(heap) :
          regexNewNode(heap[f].Path) /\ heap[f].State = "opCreate"

----------------------------------------------------------------------------
(* C8 *)

\* C8: after a successfully processed command sequence no node is more than
\* once in the same bucket of the projection.
C8_NoDuplicates ==
    Succeeded => NoDup(Diff.Added) /\ NoDup(Diff.Changed) /\ NoDup(Diff.Deleted)

----------------------------------------------------------------------------
(* C9 *)

\* the node passes both filters of the projection
C9_Unfiltered(ign, f) == ~isBTRFSTemporaryNode(heap, f) /\ ~Matches(heap, ign, f)

\* C9: every entry of added is Created, every entry of changed is Modified,
\* every entry of deleted is Deleted or has deleted_in_snapshot set, and a
\* visited node in state Created, Modified or Deleted that passes the filters
\* is in the bucket of its state.
C9_Bucketing ==
    Succeeded =>
        \A ign \in IgnoreLists :
            LET d == GetDiffStruct(heap, ign)
            IN  /\ \A f \in Range(d.Added) : heap[f].State = "opCreate"
                /\ \A f \in Range(d.Changed) : heap[f].State = "opModify"
                /\ \A f \in Range(d.Deleted) :
                      heap[f].State = "opDelete" \/ heap[f].DeletedInSnapshot
                /\ \A f \in Range(traverse(heap, rootId)) :
                      C9_Unfiltered(ign, f) =>
                          /\ (heap[f].State = "opCreate" => f \in Range(d.Added))
                          /\ (heap[f].State = "opModify" => f \in Range(d.Changed))
                          /\ (heap[f].State = "opDelete" => f \in Range(d.Deleted))

\* all three buckets filled, one of them by a node the ignore list hides
C9_Witness ==
    /\ Succeeded
    /\ Diff.Added # <<>>
    /\ Diff.Changed # <<>>
    /\ Diff.Deleted # <<>>
    /\ \E f \in AllEntries(Diff) : GetChainPath(heap, f) = <<"", "x">>

----------------------------------------------------------------------------
(* C10 *)

\* C10: every node reachable from the root that is not temporary, has
\* deleted_in_snapshot set and is in a state other than Deleted is in the
\* deleted bucket, whatever that state is.
C10_ShadowEmit ==
    Succeeded =>
        \A f \in Range(traverse(heap, rootId)) :
            (/\ ~isBTRFSTemporaryNode(heap, f)
             /\ heap[f].DeletedInSnapshot
             /\ heap[f].State # "opDelete") => f \in Range(Diff.Deleted)

----------------------------------------------------------------------------
(* C11 *)

\* the nodes reachable from the root through Children maps
Reach(h) == Range(traverse(h, rootId))

\* C11: after a successfully processed command sequence the chain path of
\* every entry of added, changed and deleted begins with "/".
C11_PathAbsoluteness ==
    Succeeded => \A f \in AllEntries(Diff) : GetChainPath(heap, f)[1] = ""

----------------------------------------------------------------------------
(* C12 *)

\* C12: after a successfully processed command sequence every node N other
\* than the root that is reachable from the root has a non-null parent P with
\* P.children[N.name] = N.
C12_TreeCoherence ==
    Succeeded =>
        \A f \in Reach(heap) \ {rootId} :
            /\ heap[f].Parent # NIL
            /\ Lookup(heap, heap[f].Parent, heap[f].Path) = f

----------------------------------------------------------------------------
(* C13 *)

\* the nodes whose Children map has the node as an entry
Holders(h, f) ==
    {p \in 1..Len(h) : \E k \in DOMAIN h[p].Children : h[p].Children[k] = f}

\* C13: in every state between commands each node reachable from the root is
\* an entry of exactly one Children map, that of its parent.
C13_Ownership ==
    Succeeded => \A f \in Reach(heap) \ {rootId} : Holders(heap, f) = {heap[f].Parent}

----------------------------------------------------------------------------
(* C14 *)

\* two write descriptors, the second at the offset where the first ends
Contiguous(c1, c2) ==
    c1.kind = "write" /\ c2.kind = "write" /\ c1.a + c1.b = c2.a

\* C14: in every reachable state and for every node, the changes never hold
\* two consecutive write descriptors (o1, l1), (o2, l2) with o1 + l1 = o2.
C14_WriteCoalescing ==
    \A i \in 1..Len(heap) :
        \A k \in 1..(Len(heap[i].Changes) - 1) :
            ~Contiguous(heap[i].Changes[k], heap[i].Changes[k + 1])

\* two contiguous writes collapsed to one, then another modification
C14_Witness ==
    /\ Len(cmds) = 3
    /\ cmds[1].cmd = "WRITE"
    /\ cmds[2].cmd = "UPDATE_EXTENT"
    /\ \E i \in 1..Len(heap) :
          heap[i].Changes = <<Change("write", 0, 3), Change("chmod", 0, 0)>>

----------------------------------------------------------------------------
(* C15 *)

\* the --ignore lists of C15: none, ^/x$, ^/d$, both, and ^/d
C15_IgnoreLists ==
    {{},
     {{<<"", "x">>}},
     {{<<"", "d">>}},
     {{<<"", "d">>}, {<<"", "x">>}},
     {{<<"", "d">>, <<"", "d", "x">>}}}

\* the chain path of the entry matches at least one regex of the list
C15_Matched(ign, f) == \E re \in ign : GetChainPath(heap, f) \in re

\* the bucket without the entries that match
C15_Minus(bucket, ign) == SelectSeq(bucket, LAMBDA f : ~C15_Matched(ign, f))

\* the projection with the list is the projection without it, less the
\* entries that match
C15_Filtered(with, without, ign) ==
    /\ with.Added = C15_Minus(without.Added, ign)
    /\ with.Changed = C15_Minus(without.Changed, ign)
    /\ with.Deleted = C15_Minus(without.Deleted, ign)

\* C15: for every list of ignore regexes the projection with the list is the
\* projection without it minus exactly the entries whose chain path matches
\* at least one regex; a descendant of an ignored node that matches no regex
\* is still reported.
C15_IgnoreFilter ==
    Succeeded =>
        \A ign \in C15_IgnoreLists : C15_Filtered(GetDiffStruct(heap, ign), Diff, ign)

\* /d is ignored and reported without the list, /d/x is reported with it
C15_Witness ==
    /\ Succeeded
    /\ InBucket(heap, Diff.Deleted, <<"", "d">>)
    /\ ~InBucket(heap, GetDiffStruct(heap, {{<<"", "d">>}}).Deleted, <<"", "d">>)
    /\ InBucket(heap, GetDiffStruct(heap, {{<<"", "d">>}}).Added, <<"", "d", "x">>)

----------------------------------------------------------------------------
(* C16 *)

\* the stream begins with the magic, a NUL and version 1 in little-endian order
HeaderValid ==
    /\ Len(input.header) >= Len(BTRFS_SEND_STREAM_MAGIC) + 5
    /\ SubSeq(input.header, 1, Len(BTRFS_SEND_STREAM_MAGIC) + 5)
           = BTRFS_SEND_STREAM_MAGIC \o <<0, 1, 0, 0, 0>>

\* C16: a stream whose NUL-terminated header differs from the magic, or whose
\* 4-byte little-endian version is not 1, is rejected by the validation: the
\* run ends with an error, no command is decoded from it and no diff is
\* returned or written.
C16_ValidationRejects ==
    ~HeaderValid => /\ status \in {"validating", "error"}
                    /\ cmds = <<>>
                    /\ stdout = <<>>

----------------------------------------------------------------------------
(* C17 *)

\* the index of the first END of the frames, 0 when there is none
FirstEnd(frames) ==
    LET ends == {i \in 1..Len(frames) : frames[i].cmd = "END"}
    IN  IF ends = {} THEN 0 ELSE CHOOSE i \in ends : \A j \in ends : i <= j

\* ProcessBTRFSStream returned the diff
Returned == status \in {"done", "exited"}

\* C17: processing stops at the first END: no command is decoded behind an
\* END; when the diff is returned the commands decoded are the frames up to
\* the first END and the tree is the one the commands before it left; and a
\* stream with no END returns no diff and writes nothing.
C17_StopsAtEnd ==
    /\ \A k \in 1..(Len(cmds) - 1) : cmds[k].cmd # "END"
    /\ Returned =>
          /\ FirstEnd(input.frames) > 0
          /\ cmds = SubSeq(input.frames, 1, FirstEnd(input.frames))
          /\ input.off = FirstEnd(input.frames)
          /\ heap = Pre
    /\ FirstEnd(input.frames) = 0 =>
          /\ ~Returned
          /\ stdout = <<>>
          /\ (input.off = Len(input.frames) /\ status # "validating"
                 => status \in {"running", "error", "panic"})

\* a diff returned and written while frames behind the END are left unread
C17_Witness ==
    /\ status = "exited"
    /\ Len(cmds) = 2
    /\ cmds[1].cmd = "MKFILE"
    /\ Len(input.frames) = 3
    /\ input.frames[3].cmd = "UNLINK"
    /\ stdout # <<>>
    /\ getNodeByPath(heap, <<"x">>) # NIL

----------------------------------------------------------------------------
(* C18 *)

\* C18: every error raised while a command is decoded or applied ends the
\* run: the command that failed is the last one applied, the run is in error
\* (no diff is returned) as soon as a command failed or a frame was read that
\* is no command, and the standard output holds a document only when every
\* command up to END was applied without error.
C18_ErrorsAbort ==
    /\ \A k \in 1..(Len(cmds) - 1) : Dispatch(heaps[k], cmds[k]).e = "ok"
    /\ (cmds # <<>> /\ Dispatch(Pre, LastCmd).e # "ok") =>
          status \in {"error", "panic"}
    /\ input.off > Len(cmds) => status = "error"
    /\ status \in {"error", "panic"} => stdout = <<>>
    /\ stdout # <<>> =>
          /\ status = "exited"
          /\ LastCmd.cmd = "END"
          /\ \A k \in 1..Len(cmds) : Dispatch(heaps[k], cmds[k]).e = "ok"

\* a command that fails after it changed the tree, with frames left behind it
C18_Witness ==
    /\ status = "error"
    /\ Len(cmds) = 2
    /\ LastCmd.cmd = "SYMLINK"
    /\ heap # Pre
    /\ input.off < Len(input.frames)
    /\ input.frames[3].cmd = "END"

----------------------------------------------------------------------------
(* C19 *)

\* C19: a UTIMES command on path p is handled as a modify: the node at p is
\* there afterwards (synthesized if it was absent), it is Created if it was
\* Created before and Modified otherwise, and its changes are the former ones
\* followed by one "utime:..." descriptor.
C19_UtimesIsModify ==
    (cmds # <<>> /\ Succeeded /\ LastCmd.cmd = "UTIMES") =>
        LET n == getNodeByPath(heap, LastCmd.path)
            p == getNodeByPath(Pre, LastCmd.path)
        IN  /\ n # NIL
            /\ heap[n].State = IF p # NIL /\ Pre[p].State = "opCreate"
                               THEN "opCreate" ELSE "opModify"
            /\ heap[n].Changes =
                  Append(IF p # NIL THEN Pre[p].Changes ELSE <<>>,
                         Change("utime", LastCmd.a, LastCmd.b))

----------------------------------------------------------------------------
(* C20 *)

\* the parent of the path is a temporary placeholder: a node directly under
\* the root with a placeholder name
C20_ParentIsPlaceholder(path) == Len(path) = 2 /\ regexNewNode(path[1])

\* the kind the node at the path had before the command (Unknown when the
\* command had to synthesize it)
C20_KindBefore ==
    IF getNodeByPath(Pre, LastCmd.path) = NIL THEN "UNKNOWN"
    ELSE Pre[getNodeByPath(Pre, LastCmd.path)].NodeType

\* C20: after a successful UNLINK or RMDIR of a path p whose parent is not a
\* temporary placeholder, the tree holds a node with chain path /p that is
\* Deleted with deleted_in_snapshot set, and that is a Dir when the command is
\* RMDIR and the kind was Unknown.
C20_DeleteMarks ==
    (/\ cmds # <<>> /\ Succeeded
     /\ LastCmd.cmd \in DeleteCmds
     /\ ~C20_ParentIsPlaceholder(LastCmd.path)) =>
        \E f \in Reach(heap) :
            /\ GetChainPath(heap, f) = Abs(LastCmd.path)
            /\ heap[f].State = "opDelete"
            /\ heap[f].DeletedInSnapshot
            /\ (LastCmd.cmd = "RMDIR" /\ C20_KindBefore = "UNKNOWN")
                   => heap[f].NodeType = "DIR"

----------------------------------------------------------------------------
(* C21 *)

\* C21: a create command for a path at which a node already exists, in
\* whatever state, fails with an error and leaves the tree unchanged.
C21_DuplicateCreate ==
    (/\ cmds # <<>>
     /\ LastCmd.cmd \in CreateCmds
     /\ getNodeByPath(Pre, LastCmd.path) # NIL) =>
        status = "error" /\ heap = Pre

\* a create has failed over a tombstone
C21_Witness ==
    /\ cmds # <<>>
    /\ LastCmd.cmd \in CreateCmds
    /\ getNodeByPath(Pre, LastCmd.path) # NIL
    /\ Pre[getNodeByPath(Pre, LastCmd.path)].State = "opDelete"
    /\ status = "error"

----------------------------------------------------------------------------
(* C22 *)

\* the stream holds a CLONE or an UNSPEC command before its first END
C22_HasUnsupported ==
    \E i \in 1..Len(input.frames) :
        /\ input.frames[i].cmd \in {"CLONE", "UNSPEC"}
        /\ \A j \in 1..(i - 1) : input.frames[j].cmd # "END"

\* C22: a stream that holds a CLONE command, or a command of type UNSPEC,
\* before END fails and produces no diff: the command itself ends the run with
\* an error, and the run is never left with a diff returned or written.
C22_Unsupported ==
    /\ (cmds # <<>> /\ LastCmd.cmd \in {"CLONE", "UNSPEC"}) =>
            status = "error" /\ stdout = <<>>
    /\ C22_HasUnsupported => status \notin {"done", "exited"} /\ stdout = <<>>

\* a CLONE has ended a run that had made a node
C22_Witness ==
    /\ Len(cmds) >= 2
    /\ cmds[1].cmd = "MKFILE"
    /\ LastCmd.cmd = "CLONE"
    /\ status = "error"

----------------------------------------------------------------------------
(* C23 *)

\* the commands that make no node, with the attributes the loop reads
C23_NoOp(f) ==
    \/ f.cmd \in {"FALLOCATE", "FILEATTR", "ENCODED_WRITE", "ENABLE_VERITY"}
    \/ f.cmd = "SUBVOL" /\ ReadParam(f.attrs, 1, <<"PATH", "UUID", "CTRANSID">>)
    \/ f.cmd = "SNAPSHOT" /\ ReadParam(f.attrs, 1, <<"PATH", "UUID", "CTRANSID",
                                                    "CLONE_UUID", "CLONE_CTRANSID">>)

\* C23: SUBVOL and SNAPSHOT, and the commands FALLOCATE, FILEATTR,
\* ENCODED_WRITE and ENABLE_VERITY of versions 2 and 3, leave the tree as it
\* was and the loop goes on to the next command.
C23_NoOps ==
    [][(Len(cmds') = Len(cmds) + 1 /\ C23_NoOp(cmds'[Len(cmds')])) =>
          heap' = heap /\ status' = "running"]_vars

\* a create, each kind of no-op, and a delete applied after them
C23_Witness ==
    /\ Len(cmds) = 3
    /\ cmds[1].cmd = "MKFILE"
    /\ C23_NoOp(cmds[2])
    /\ cmds[3].cmd = "UNLINK"
    /\ heaps[3] = heaps[2]
    /\ heap # Pre
    /\ status = "running"

----------------------------------------------------------------------------
(* C24 *)

\* the node n carries a relation to the node m for the reason given
HasRelation(h, n, m, reason) ==
    \E k \in 1..Len(h[n].Relations) :
        h[n].Relations[k] = [Node |-> m, Reason |-> reason]

\* C24: after a successful RENAME from -> to whose source path holds no
\* placeholder component, the node at to carries a RenameSrc relation to a
\* node S that carries a RenameDest relation back to it, and S is the
\* tombstone of the source: it is Deleted and its chain path is /from.
C24_RenameRelations ==
    (/\ cmds # <<>> /\ Succeeded
     /\ LastCmd.cmd = "RENAME"
     /\ ~regexNewNodePath(LastCmd.path)) =>
        LET dest == getNodeByPath(heap, LastCmd.path2)
        IN  /\ dest # NIL
            /\ \E S \in 1..Len(heap) :
                  /\ HasRelation(heap, dest, S, "RENAME_SRC")
                  /\ HasRelation(heap, S, dest, "RENAME_DEST")
                  /\ heap[S].State = "opDelete"
                  /\ GetChainPath(heap, S) = Abs(LastCmd.path)

----------------------------------------------------------------------------
(* C25 *)

\* how many entries of a bucket are the node
CountNode(bucket, n) == Cardinality({i \in 1..Len(bucket) : bucket[i] = n})

\* the child c, held by the destination under the name k, has the destination
\* as its parent, its chain path is /to/k, and no bucket holds it twice
C25_Follows(dest, k, c) ==
    /\ heap[c].Parent = dest
    /\ GetChainPath(heap, c) = Append(Abs(LastCmd.path2), k)
    /\ CountNode(Diff.Added, c) <= 1
    /\ CountNode(Diff.Changed, c) <= 1
    /\ CountNode(Diff.Deleted, c) <= 1

\* C25: after a RENAME or LINK from -> to of a source node that has children,
\* every child handed to the destination has the destination as its parent,
\* so its chain path is /to/<name> and the projection reports it once, under
\* /to.
C25_ChildrenFollow ==
    (/\ cmds # <<>> /\ Succeeded
     /\ LastCmd.cmd \in RenameCmds
     /\ getNodeByPath(Pre, LastCmd.path) # NIL
     /\ DOMAIN Pre[getNodeByPath(Pre, LastCmd.path)].Children # {}) =>
        LET src == getNodeByPath(Pre, LastCmd.path)
            dest == getNodeByPath(heap, LastCmd.path2)
        IN  /\ dest # NIL
            /\ \A k \in DOMAIN Pre[src].Children :
                  /\ Lookup(heap, dest, k) = Pre[src].Children[k]
                  /\ C25_Follows(dest, k, Pre[src].Children[k])

----------------------------------------------------------------------------
(* C26 *)

\* C26: no delete is lost: after every successfully applied UNLINK or RMDIR of
\* a path whose last component is x, a node named x with deleted_in_snapshot
\* set is reachable from the root, whatever the parent of the path, a parent
\* with a placeholder name and no RenameSrc relation included.
C26_NoDeleteLost ==
    (/\ cmds # <<>> /\ Succeeded
     /\ LastCmd.cmd \in DeleteCmds) =>
        \E f \in Reach(heap) :
            /\ heap[f].Path = getLastPathPart(LastCmd.path)
            /\ heap[f].DeletedInSnapshot

----------------------------------------------------------------------------
(* C27 *)

\* the kind a create command gives its node
C27_Kind(cmd) ==
    CASE cmd = "MKFILE"  -> "FILE"
      [] cmd = "MKDIR"   -> "DIR"
      [] cmd = "SYMLINK" -> "SYMLINK"
      [] cmd = "MKNOD"   -> "NODE"
      [] cmd = "MKFIFO"  -> "FIFO"
      [] cmd = "MKSOCK"  -> "SOCK"

\* the node at the first i entries of the path of the last command
C27_At(i) == getNodeByPath(heap, SubSeq(LastCmd.path, 1, i))

\* C27: after a successful create of path p, the node at p is Created and of
\* the kind the command gives; every directory synthesized on the way is a Dir
\* in state Unspecified; and every node that was there before keeps its state.
C27_CreateResult ==
    (/\ cmds # <<>> /\ Succeeded
     /\ LastCmd.cmd \in CreateCmds) =>
        /\ C27_At(Len(LastCmd.path)) # NIL
        /\ heap[C27_At(Len(LastCmd.path))].State = "opCreate"
        /\ heap[C27_At(Len(LastCmd.path))].NodeType = C27_Kind(LastCmd.cmd)
        /\ \A i \in 1..(Len(LastCmd.path) - 1) :
              /\ C27_At(i) # NIL
              /\ C27_At(i) > Len(Pre) =>
                    /\ heap[C27_At(i)].NodeType = "DIR"
                    /\ heap[C27_At(i)].State = "opUnspec"
        /\ \A m \in 1..Len(Pre) : heap[m].State = Pre[m].State

\* a MKDIR that synthesized its parent, in a tree that held a tombstone
C27_Witness ==
    /\ Len(cmds) >= 2 /\ Succeeded
    /\ LastCmd.cmd = "MKDIR"
    /\ LastCmd.path = <<"d", "x">>
    /\ getNodeByPath(Pre, <<"d">>) = NIL
    /\ \E m \in 1..Len(Pre) : Pre[m].State = "opDelete"

----------------------------------------------------------------------------
(* C28 *)

\* the node at the destination of the last command before the command: the
\* child E that the attach of the destination node finds under its parent
C28_E == getNodeByPath(Pre, LastCmd.path2)

\* the destination node N of the last command
C28_N == getNodeByPath(heap, LastCmd.path2)

\* the sequence ends with the other
IsSuffix(suffix, seq) ==
    /\ Len(suffix) <= Len(seq)
    /\ SubSeq(seq, Len(seq) - Len(suffix) + 1, Len(seq)) = suffix

\* a RENAME or LINK has attached its destination node where a Deleted node
\* was, which is not the source itself
C28_Pre ==
    /\ cmds # <<>> /\ Succeeded
    /\ LastCmd.cmd \in RenameCmds
    /\ C28_E # NIL
    /\ Pre[C28_E].State = "opDelete"
    /\ getNodeByPath(Pre, LastCmd.path) # C28_E

\* C28: when a node N is attached under a parent P that has a Deleted child E
\* of the same name, afterwards P.children[name] = N, E is detached from the
\* tree, N.deleted_in_snapshot is set, N's relations are its former relations
\* followed by E's, and every former child of E is a child of N with N as its
\* parent.
C28_ReplaceMerges ==
    C28_Pre =>
        /\ C28_N # NIL /\ C28_N > Len(Pre)
        /\ heap[C28_E].Parent = NIL
        /\ C28_E \notin Reach(heap)
        /\ heap[C28_N].DeletedInSnapshot
        /\ IsSuffix(Pre[C28_E].Relations, heap[C28_N].Relations)
        /\ \A k \in DOMAIN Pre[C28_E].Children :
              /\ Lookup(heap, C28_N, k) = Pre[C28_E].Children[k]
              /\ heap[Pre[C28_E].Children[k]].Parent = C28_N

----------------------------------------------------------------------------
(* C29 *)

\* the source of the last command before the command
C29_Src == getNodeByPath(Pre, LastCmd.path)

\* the last command is a RENAME or LINK of a node that was there, to a path
\* where a node that is not Deleted was: the attach of the destination node is
\* the first call that can change a Children map or a Parent (the delete of a
\* renamed source marks it in place, its parent being no placeholder)
C29_Pre ==
    /\ cmds # <<>>
    /\ LastCmd.cmd \in RenameCmds
    /\ C29_Src # NIL
    /\ C28_E # NIL
    /\ Pre[C28_E].State # "opDelete"
    /\ LastCmd.cmd = "RENAME" =>
          /\ C28_E # C29_Src
          /\ Pre[C29_Src].Parent # NIL
          /\ ~regexNewNode(Pre[Pre[C29_Src].Parent].Path)

\* C29: attaching a node under a parent that already has a child of the same
\* name whose state is not Deleted fails with an error, and the failed attach
\* leaves every children mapping and every parent pointer as it was before the
\* call (the destination node, made for the call, stays without a parent).
C29_DuplicateChild ==
    C29_Pre =>
        /\ status = "error"
        /\ Len(heap) = Len(Pre) + 1
        /\ \A m \in 1..Len(Pre) :
              /\ heap[m].Children = Pre[m].Children
              /\ heap[m].Parent = Pre[m].Parent
        /\ heap[Len(heap)].Parent = NIL
        /\ heap[Len(heap)].Children = Pre[C29_Src].Children

\* a RENAME has failed on a destination that was Created, its source marked
C29_Witness ==
    /\ C29_Pre
    /\ LastCmd.cmd = "RENAME"
    /\ Pre[C28_E].State = "opCreate"
    /\ DOMAIN Pre[C29_Src].Children # {}
    /\ status = "error"

----------------------------------------------------------------------------
(* C30 *)

\* the (chain path, verdict) pairs of the lines print logs
C30_Printed(ign) ==
    {print(heap, ign)[i] : i \in 1..Len(print(heap, ign))}

\* the (chain path, verdict) pairs of a bucket of the structured document
C30_Bucket(bucket, verdict) ==
    {[path |-> GetChainPath(heap, bucket[i]), verdict |-> verdict] :
        i \in 1..Len(bucket)}

C30_Structured(d) ==
    C30_Bucket(d.Added, "added") \cup C30_Bucket(d.Changed, "changed")
        \cup C30_Bucket(d.Deleted, "deleted")

\* C30: for the same tree and the same ignore list, the pretty renderer and
\* the structured projection report the same set of (chain path, verdict)
\* pairs: a node is printed as added, changed or deleted exactly when it is in
\* the corresponding bucket of the structured document.
C30_RenderersAgree ==
    Succeeded =>
        \A ign \in IgnoreLists :
            C30_Printed(ign) = C30_Structured(GetDiffStruct(heap, ign))

----------------------------------------------------------------------------
(* C31 *)

\* the nodes a Children map holds
ChildSet(h, n) == {h[n].Children[k] : k \in DOMAIN h[n].Children}

\* the nodes of S and those below them, down to the depth given
RECURSIVE Below(_, _, _)
Below(h, S, depth) ==
    IF depth = 0 THEN S
    ELSE Below(h, S \cup UNION {ChildSet(h, m) : m \in S}, depth - 1)

\* the descendants of a node: a path without a repeated node is no longer
\* than the number of nodes
Descendants(h, n) == Below(h, ChildSet(h, n), Len(h))

\* C31: after any sequence of commands the structure reachable from the root
\* through the Children maps is acyclic: no node is its own descendant.
C31_Acyclic ==
    Succeeded =>
        \A n \in {rootId} \cup Descendants(heap, rootId) :
            n \notin Descendants(heap, n)

----------------------------------------------------------------------------
(* C32 *)

\* the last command is a SYMLINK that succeeded
C32_Pre == cmds # <<>> /\ Succeeded /\ LastCmd.cmd = "SYMLINK"

\* the new symlink node, and the node its link target resolves to
C32_Node == getNodeByPath(heap, LastCmd.path)

C32_Found == getNodeByPath(heap, SplitLink(LastCmd.link))

\* the nodes on the path of the symlink, the symlink included, and the first
\* of them that the command made
C32_OnPath ==
    {getNodeByPath(heap, SubSeq(LastCmd.path, 1, i)) : i \in 1..Len(LastCmd.path)}

C32_First ==
    getNodeByPath(heap, SubSeq(LastCmd.path, 1,
        CHOOSE i \in 1..Len(LastCmd.path) :
            /\ getNodeByPath(heap, SubSeq(LastCmd.path, 1, i)) > Len(Pre)
            /\ \A j \in 1..(i - 1) :
                  getNodeByPath(heap, SubSeq(LastCmd.path, 1, j)) <= Len(Pre)))

\* the relation r is the LinkDest of the symlink: to the node the target
\* resolves to, or else to a new node of kind Unknown outside the tree
C32_LinkDest(r) ==
    /\ r.Reason = "LINK_DEST"
    /\ IF C32_Found # NIL
       THEN r.Node = C32_Found
       ELSE /\ r.Node > Len(Pre)
            /\ heap[r.Node].NodeType = "UNKNOWN"
            /\ heap[r.Node].Parent = NIL
            /\ r.Node \notin Descendants(heap, rootId)

\* the tree gains the symlink and its synthesized parents only, and loses
\* nothing
C32_TreeGrows ==
    /\ Descendants(heap, rootId) \ Descendants(Pre, rootId) \subseteq C32_OnPath
    /\ Descendants(Pre, rootId) \subseteq Descendants(heap, rootId)

\* the existing node m as it was, with the first new node of the path in its
\* Children map when it is the parent of that node
C32_Kept(m) ==
    IF m # heap[C32_First].Parent THEN Pre[m]
    ELSE [Pre[m] EXCEPT !.Children =
             [k \in (DOMAIN @) \cup {heap[C32_First].Path} |->
                 IF k = heap[C32_First].Path THEN C32_First ELSE @[k]]]

\* C32 as stated: a SYMLINK gives the new node exactly one LinkDest relation,
\* a target that does not resolve stays outside the tree, the tree gains the
\* symlink and its synthesized parents only, and no existing node is changed
\* (but for the entry of the first new node in its parent's map).
C32_SymlinkFrame_Original ==
    C32_Pre =>
        /\ C32_Node # NIL /\ C32_Node > Len(Pre)
        /\ Len(heap[C32_Node].Relations) = 1
        /\ C32_LinkDest(heap[C32_Node].Relations[1])
        /\ C32_TreeGrows
        /\ \A m \in 1..Len(Pre) : heap[m] = C32_Kept(m)

\* C32, amended: as stated, except that the existing parent of the symlink
\* becomes a Dir when its kind was Unknown.
C32_SymlinkFrame ==
    C32_Pre =>
        /\ C32_Node # NIL /\ C32_Node > Len(Pre)
        /\ getNodeByPath(Pre, LastCmd.path) = NIL
        /\ Len(heap[C32_Node].Relations) = 1
        /\ C32_LinkDest(heap[C32_Node].Relations[1])
        /\ C32_TreeGrows
        /\ \A m \in 1..Len(Pre) :
              heap[m] = IF m = heap[C32_Node].Parent
                        THEN [C32_Kept(m) EXCEPT !.NodeType =
                                 IF @ = "UNKNOWN" THEN "DIR" ELSE @]
                        ELSE C32_Kept(m)

\* a symlink whose target is not in the tree, made in a directory that was
\* there with kind Unknown
C32_Witness ==
    /\ C32_Pre
    /\ C32_Found = NIL
    /\ LastCmd.path = <<"d", "x">>
    /\ getNodeByPath(Pre, LastCmd.path) = NIL
    /\ getNodeByPath(Pre, <<"d">>) # NIL
    /\ Pre[getNodeByPath(Pre, <<"d">>)].NodeType = "UNKNOWN"

----------------------------------------------------------------------------
(* C33 *)

\* the last command is a WRITE or an UPDATE_EXTENT that succeeded
C33_Pre ==
    cmds # <<>> /\ Succeeded /\ LastCmd.cmd \in {"WRITE", "UPDATE_EXTENT"}

\* the changes of the written node before the command: none when the command
\* made the node
C33_Before ==
    IF getNodeByPath(Pre, LastCmd.path) = NIL THEN <<>>
    ELSE Pre[getNodeByPath(Pre, LastCmd.path)].Changes

C33_After == heap[getNodeByPath(heap, LastCmd.path)].Changes

\* the last change before the command is a write descriptor that ends where
\* the written range starts
C33_Adjacent ==
    /\ C33_Before # <<>>
    /\ C33_Before[Len(C33_Before)].kind = "write"
    /\ C33_Before[Len(C33_Before)].a + C33_Before[Len(C33_Before)].b = LastCmd.a

\* C33: a WRITE or UPDATE_EXTENT of length n at offset o on a node whose last
\* change is a write descriptor (p, m) with p + m = o replaces that descriptor
\* with (p, m + n) and leaves the earlier changes as they were; in every
\* other case it appends (o, n) and removes nothing.
C33_ExactCoalescing ==
    C33_Pre =>
        C33_After =
            IF C33_Adjacent
            THEN Append(SubSeq(C33_Before, 1, Len(C33_Before) - 1),
                        Change("write", C33_Before[Len(C33_Before)].a,
                               C33_Before[Len(C33_Before)].b + LastCmd.b))
            ELSE Append(C33_Before, Change("write", LastCmd.a, LastCmd.b))

\* a write at the offset where the last write ends, with no sum out of range
C33_Witness ==
    /\ C33_Pre
    /\ C33_Adjacent
    /\ Len(C33_Before) = 2
    /\ C33_Before[2].b + LastCmd.b < 2 ^ Uint64Bits
    /\ LastCmd.b > 0

----------------------------------------------------------------------------
(* C34 *)

\* the type and the length in the header of the next attribute of a payload
C34_Type(data) == data[1] + 256 * data[2]

C34_Length(data) == data[3] + 256 * data[4]

\* the payload has no whole header, or the next attribute is not of the
\* expected type, or it declares more bytes than are left
C34_Rejected(c) ==
    \/ Len(c.data) < 4
    \/ C34_Type(c.data) # c.expected
    \/ C34_Length(c.data) > Len(c.data) - 4

\* the payload after the i-th call
C34_After(i) == IF i = Len(calls) THEN command.data ELSE calls[i + 1].data

\* C34: ReadParam(expected) on a payload returns an error value and consumes
\* nothing if fewer than 4 bytes remain, the next attribute's type is not the
\* expected one, or its declared length exceeds the bytes that remain;
\* otherwise it returns the converted value and advances the payload by
\* exactly 4 + length bytes.
C34_ReadParamContract ==
    status \in {"decoding", "panic"} =>
        \A i \in 1..Len(calls) :
            IF C34_Rejected(calls[i])
            THEN calls[i].e = "error" /\ C34_After(i) = calls[i].data
            ELSE /\ calls[i].e = "ok"
                 /\ C34_After(i) =
                        SubSeq(calls[i].data, 4 + C34_Length(calls[i].data) + 1,
                               Len(calls[i].data))

----------------------------------------------------------------------------
(* C35 *)

\* the position of the reader in the file: the bytes read less the bytes
\* still buffered
C35_Position == reader.pos - Len(reader.buf)

\* the position after the i-th call
C35_After(i) == IF i = Len(calls) THEN C35_Position ELSE calls[i + 1].at

\* the bytes the calls returned, one slice after the other
RECURSIVE C35_Returned(_)
C35_Returned(i) ==
    IF i = 0 THEN <<>>
    ELSE C35_Returned(i - 1)
             \o (IF calls[i].e = "ok" THEN calls[i].data ELSE <<>>)

\* C35: each successful peekAndDiscard(n) returns exactly the next n bytes of
\* the input and advances the position by n, also when n exceeds the
\* capacity of the buffer, so the slices returned are together a prefix of the
\* input; a call fails when fewer than n bytes remain.
C35_PeekAndDiscard ==
    status = "reading" =>
        /\ \A i \in 1..Len(calls) :
              /\ calls[i].e = "ok" =>
                    /\ calls[i].at + calls[i].n <= FileLen
                    /\ calls[i].data =
                           SubSeq(File, calls[i].at + 1, calls[i].at + calls[i].n)
                    /\ C35_After(i) = calls[i].at + calls[i].n
              /\ FileLen - calls[i].at < calls[i].n => calls[i].e = "error"
        /\ C35_Returned(Len(calls)) =
               SubSeq(File, 1, Len(C35_Returned(Len(calls))))

\* a payload longer than the buffer read behind a header, with bytes of the
\* header's fill still buffered, and a header read behind it
C35_Witness ==
    /\ status = "reading"
    /\ Len(calls) = 3
    /\ calls[1].n = 4 /\ calls[2].n > BufSize /\ calls[3].n = 2
    /\ \A i \in 1..3 : calls[i].e = "ok"
    /\ reader.chunk > 1

====
